---- MODULE Spec2Model ----
\* Model of the foundry crafting, foundry upgrade and spaceship module systems
\* (FoundryCraftingSystem, ModuleCraftingSystem, FoundryUpgradeSystem,
\* SpaceshipModuleSystem).  Every entry point is one atomic action: a Solidity
\* transaction either commits all of its writes or reverts and leaves the
\* tables untouched; the outcome of the last transaction is kept in `last`.
EXTENDS Integers, Sequences, FiniteSets, TLC

\* ------------------------------------------------------------------ bounds
MaxArtifacts == 4
MaxTime == 2
ArtifactSlots == 3

\* ------------------------------------------------------- program constants
ENGINES_SLOT == 1
WEAPONS_SLOT == 2
HULL_SLOT == 3
SHIELD_SLOT == 4
SPACESHIP_INDEX == 3
MODULE_INDEX == 23
MIN_FOUNDRY_LEVEL == 4
MAX_UPGRADE_LEVEL == 2
MATERIAL_SCALE == 1000
UINT16_MAX == 65535

COMMON == 1
RARE == 2
EPIC == 3
LEGENDARY == 4
MYTHIC == 5

Axes == {"attack", "defense", "speed", "range"}
Kinds == {"WINDSTEEL", "AURORIUM", "PYROSTEEL", "SCRAPIUM", "BLACKALLOY",
          "CORRUPTED_CRYSTAL", "LIVING_WOOD", "CRYOSTONE"}

\* ----------------------------------------------------------- the universe
\* Planets are created by the admin before play; their static attributes never
\* change in the systems modelled here.
Planets == 1..4
Users == {"user1", "user2"}
planetOwner(p) == "user1"
planetType(p) == IF p = 3 THEN "PLANET" ELSE "FOUNDRY"
planetLevel(p) == CASE p = 1 -> 4 [] p = 2 -> 7 [] p = 3 -> 4 [] OTHER -> 3
planetBiome(p) == CASE p = 1 -> 1 [] p = 2 -> 10 [] p = 3 -> 4 [] OTHER -> 7

ArtifactIds == 1..MaxArtifacts

\* ------------------------------------------------------------ arithmetic
Max(a, b) == IF a >= b THEN a ELSE b
CeilDiv(a, b) == (a + b - 1) \div b
\* division rounded to the nearest integer, halves up
RoundDiv(a, b) == (2 * a + b) \div (2 * b)

\* ------------------------------------------------ crafting multiplier table
\* faulty variant: a multiplier growing by 50 per craft
getCraftingMultiplierLinear(craftingCount) ==
    100 + 50 * craftingCount

\* faulty variant: the same price for every craft
getCraftingMultiplierFlat(craftingCount) ==
    100

getCraftingMultiplier(craftingCount) ==
    IF craftingCount = 0 THEN 100
    ELSE IF craftingCount = 1 THEN 150
    ELSE IF craftingCount = 2 THEN 225
    ELSE 100

\* ------------------------------------------------------------------ recipes
SpaceshipRecipe(spaceshipType) ==
    CASE spaceshipType = 1 -> <<[kind |-> "WINDSTEEL", amount |-> 100], [kind |-> "AURORIUM", amount |-> 50]>>
      [] spaceshipType = 2 -> <<[kind |-> "PYROSTEEL", amount |-> 150], [kind |-> "SCRAPIUM", amount |-> 100]>>
      [] spaceshipType = 3 -> <<[kind |-> "BLACKALLOY", amount |-> 200], [kind |-> "CORRUPTED_CRYSTAL", amount |-> 100]>>
      [] spaceshipType = 4 -> <<[kind |-> "LIVING_WOOD", amount |-> 200], [kind |-> "CRYOSTONE", amount |-> 150]>>

ModuleRecipe(moduleType) ==
    CASE moduleType = 1 -> <<[kind |-> "WINDSTEEL", amount |-> 80], [kind |-> "AURORIUM", amount |-> 40]>>
      [] moduleType = 2 -> <<[kind |-> "PYROSTEEL", amount |-> 120], [kind |-> "SCRAPIUM", amount |-> 80]>>
      [] moduleType = 3 -> <<[kind |-> "BLACKALLOY", amount |-> 160], [kind |-> "CORRUPTED_CRYSTAL", amount |-> 80]>>
      [] moduleType = 4 -> <<[kind |-> "LIVING_WOOD", amount |-> 160], [kind |-> "CRYOSTONE", amount |-> 120]>>

Recipe(isModule, type) == IF isModule THEN ModuleRecipe(type) ELSE SpaceshipRecipe(type)

\* amount of recipe entry i the contract computes for a multiplier (truncating)
expectedAmountWithMultiplier(baseAmount, craftingMultiplier) ==
    (baseAmount * craftingMultiplier) \div 100

\* faulty variant: no tolerance
AmountOutsideNoTolerance(providedAmount, expected) ==
    providedAmount # expected

\* the tolerance window of the amount check
AmountOutside(providedAmount, expected) ==
    providedAmount < expected \/ providedAmount > expected + 1

\* position of a kind in the provided list (0 when absent)
IndexOf(materials, kind) ==
    IF \E i \in 1..Len(materials) : materials[i] = kind
    THEN CHOOSE i \in 1..Len(materials) : materials[i] = kind
    ELSE 0

HasDuplicate(materials) ==
    \E i, j \in 1..Len(materials) : i < j /\ materials[i] = materials[j]

\* first failure of the loop over the expected materials (lines 164-178), or "ok"
RECURSIVE CheckExpected(_, _, _, _, _)
CheckExpected(recipe, materials, amounts, craftingMultiplier, i) ==
    IF i > Len(recipe) THEN "ok"
    ELSE IF IndexOf(materials, recipe[i].kind) = 0 THEN "MissingRequiredMaterials"
    ELSE IF AmountOutside(amounts[IndexOf(materials, recipe[i].kind)],
                          expectedAmountWithMultiplier(recipe[i].amount, craftingMultiplier))
         THEN "InvalidMaterialAmount"
    ELSE CheckExpected(recipe, materials, amounts, craftingMultiplier, i + 1)

\* variant: the balance compared with the provided amount
InsufficientAgainstProvided(recipe, materials, amounts, craftingMultiplier, balance) ==
    \E i \in 1..Len(recipe) :
        balance[recipe[i].kind] < amounts[IndexOf(materials, recipe[i].kind)] * MATERIAL_SCALE

\* the sufficiency loop (lines 185-193): compares the planet's balance with the
\* truncated scaled recipe amount
Insufficient(recipe, materials, amounts, craftingMultiplier, balance) ==
    \E i \in 1..Len(recipe) :
        balance[recipe[i].kind] <
            expectedAmountWithMultiplier(recipe[i].amount, craftingMultiplier) * MATERIAL_SCALE

validateRecipe(recipe, materials, amounts, craftingMultiplier, balance) ==
    IF Len(materials) # Len(amounts) THEN "InvalidMaterialAmount"
    ELSE IF Len(materials) = 0 THEN "MissingRequiredMaterials"
    ELSE IF Len(materials) # Len(recipe) THEN "MissingRequiredMaterials"
    ELSE IF HasDuplicate(materials) THEN "InvalidMaterialAmount"
    ELSE IF CheckExpected(recipe, materials, amounts, craftingMultiplier, 1) # "ok"
         THEN CheckExpected(recipe, materials, amounts, craftingMultiplier, 1)
    ELSE IF Insufficient(recipe, materials, amounts, craftingMultiplier, balance)
         THEN "InsufficientMaterialOnPlanet"
    ELSE "ok"

\* faulty variant: one craft too many
maxCraftsUnlimited(upgradeLevel) == 1 + upgradeLevel + 1

\* faulty variant: three crafts whatever the upgrade level
maxCraftsThree(upgradeLevel) == 3

maxCrafts(upgradeLevel) == 1 + upgradeLevel

\* faulty variant: the recipe validated before the crafting limit
validateCraftingRecipeFirst(foundry, executor, isModule, type, materials, amounts, count, upgradeLevel, balance) ==
    IF planetOwner(foundry) # executor THEN "NotPlanetOwner"
    ELSE IF planetType(foundry) # "FOUNDRY" THEN "InvalidPlanetType"
    ELSE IF planetLevel(foundry) < MIN_FOUNDRY_LEVEL THEN "PlanetLevelTooLow"
    ELSE IF type < 1 \/ type > 4
         THEN (IF isModule THEN "InvalidModuleType" ELSE "InvalidSpaceshipType")
    ELSE IF validateRecipe(Recipe(isModule, type), materials, amounts,
                           getCraftingMultiplier(count), balance) # "ok"
         THEN validateRecipe(Recipe(isModule, type), materials, amounts,
                             getCraftingMultiplier(count), balance)
    ELSE IF count >= maxCrafts(upgradeLevel) THEN "FoundryCraftingLimitReached"
    ELSE "ok"

\* faulty variant: the planet's type and level not checked
validateCraftingAnywhere(foundry, executor, isModule, type, materials, amounts, count, upgradeLevel, balance) ==
    IF planetOwner(foundry) # executor THEN "NotPlanetOwner"
    ELSE IF type < 1 \/ type > 4
         THEN (IF isModule THEN "InvalidModuleType" ELSE "InvalidSpaceshipType")
    ELSE IF count >= maxCrafts(upgradeLevel) THEN "FoundryCraftingLimitReached"
    ELSE validateRecipe(Recipe(isModule, type), materials, amounts,
                        getCraftingMultiplier(count), balance)

validateCrafting(foundry, executor, isModule, type, materials, amounts, count, upgradeLevel, balance) ==
    IF planetOwner(foundry) # executor THEN "NotPlanetOwner"
    ELSE IF planetType(foundry) # "FOUNDRY" THEN "InvalidPlanetType"
    ELSE IF planetLevel(foundry) < MIN_FOUNDRY_LEVEL THEN "PlanetLevelTooLow"
    ELSE IF type < 1 \/ type > 4
         THEN (IF isModule THEN "InvalidModuleType" ELSE "InvalidSpaceshipType")
    ELSE IF count >= maxCrafts(upgradeLevel) THEN "FoundryCraftingLimitReached"
    ELSE validateRecipe(Recipe(isModule, type), materials, amounts,
                        getCraftingMultiplier(count), balance)

\* the consumption loop of _executeCrafting (lines 208-213): checked uint256
\* subtraction, so a balance below the provided amount makes the call panic
ConsumeUnderflows(materials, amounts, balance) ==
    \E i \in 1..Len(materials) : balance[materials[i]] < amounts[i] * MATERIAL_SCALE

\* faulty variant: the amount taken without the scale factor
ConsumeMaterialsScaled(materials, amounts, balance) ==
    [k \in Kinds |->
        IF IndexOf(materials, k) = 0 THEN balance[k]
        ELSE balance[k] - amounts[IndexOf(materials, k)]]

ConsumeMaterials(materials, amounts, balance) ==
    [k \in Kinds |->
        IF IndexOf(materials, k) = 0 THEN balance[k]
        ELSE balance[k] - amounts[IndexOf(materials, k)] * MATERIAL_SCALE]

\* ------------------------------------------------------------------ rarity
\* seed & 0xfff000
lvlBonusSeed(seed) == ((seed \div 4096) % 4096) * 4096

\* faulty variant: every threshold one level higher
rarityOfLevelShifted(level) ==
    IF level <= 2 THEN COMMON
    ELSE IF level <= 4 THEN RARE
    ELSE IF level <= 6 THEN EPIC
    ELSE IF level <= 8 THEN LEGENDARY
    ELSE MYTHIC

rarityOfLevel(level) ==
    IF level <= 1 THEN COMMON
    ELSE IF level <= 3 THEN RARE
    ELSE IF level <= 5 THEN EPIC
    ELSE IF level <= 7 THEN LEGENDARY
    ELSE MYTHIC

\* faulty variant: the seed never raises the level
calculateModuleRarityNoBoost(planetLevel_, seed) ==
    rarityOfLevel(planetLevel_)

calculateModuleRarity(planetLevel_, seed) ==
    rarityOfLevel(IF lvlBonusSeed(seed) < 262144 THEN planetLevel_ + 2
                  ELSE IF lvlBonusSeed(seed) < 1048576 THEN planetLevel_ + 1
                  ELSE planetLevel_)

calculateSpaceshipRarity(planetLevel_, seed) ==
    rarityOfLevel(IF lvlBonusSeed(seed) < 262144 THEN planetLevel_ + 2
                  ELSE IF lvlBonusSeed(seed) < 1048576 THEN planetLevel_ + 1
                  ELSE planetLevel_)

\* ------------------------------------------------------------------ bonuses
getRarityMultiplier(rarity) ==
    IF rarity = COMMON THEN 100
    ELSE IF rarity = RARE THEN 120
    ELSE IF rarity = EPIC THEN 150
    ELSE IF rarity = LEGENDARY THEN 200
    ELSE IF rarity = MYTHIC THEN 300
    ELSE 100

getBiomeBonus(biome) ==
    IF biome >= 1 /\ biome <= 3 THEN 1
    ELSE IF biome >= 4 /\ biome <= 6 THEN 2
    ELSE IF biome >= 7 /\ biome <= 9 THEN 4
    ELSE IF biome = 10 THEN 8
    ELSE 0

getModuleRoleBonus(moduleType, axis) ==
    CASE axis = "attack" -> (IF moduleType = 2 THEN 8 ELSE 0)
      [] axis = "defense" -> (IF moduleType = 3 THEN 8 ELSE IF moduleType = 4 THEN 10 ELSE 0)
      [] axis = "speed" -> (IF moduleType = 1 THEN 8 ELSE 0)
      [] axis = "range" -> (IF moduleType = 1 THEN 3 ELSE IF moduleType = 2 THEN 5 ELSE 0)

getSpaceshipRoleBonus(spaceshipType, axis) ==
    CASE axis = "attack" -> (IF spaceshipType = 2 THEN 5 ELSE IF spaceshipType = 3 THEN 10
                             ELSE IF spaceshipType = 4 THEN 5 ELSE 0)
      [] axis = "defense" -> (IF spaceshipType = 2 THEN 5 ELSE IF spaceshipType = 3 THEN 10
                              ELSE IF spaceshipType = 4 THEN 15 ELSE 0)
      [] axis = "speed" -> (IF spaceshipType = 1 THEN 10 ELSE 0)
      [] axis = "range" -> (IF spaceshipType = 1 THEN 5 ELSE IF spaceshipType = 2 THEN 5
                            ELSE IF spaceshipType = 4 THEN 3 ELSE 0)

\* divisor of the bonus formula: 400 for the module attack axis, 100 elsewhere
moduleDivisor(axis) == IF axis = "attack" THEN 400 ELSE 100

\* faulty variant: the biome bonus granted to a role without aptitude
calculateModuleBonusNoGuard(biome, rarity, moduleType, axis) ==
    ((getBiomeBonus(biome) + getModuleRoleBonus(moduleType, axis))
        * getRarityMultiplier(rarity)) \div moduleDivisor(axis)

\* variant: division rounded to the nearest integer
calculateModuleBonusRounded(biome, rarity, moduleType, axis) ==
    IF getModuleRoleBonus(moduleType, axis) = 0 THEN 0
    ELSE RoundDiv((getBiomeBonus(biome) + getModuleRoleBonus(moduleType, axis))
                     * getRarityMultiplier(rarity), moduleDivisor(axis))

calculateModuleBonus(biome, rarity, moduleType, axis) ==
    IF getModuleRoleBonus(moduleType, axis) = 0 THEN 0
    ELSE ((getBiomeBonus(biome) + getModuleRoleBonus(moduleType, axis))
             * getRarityMultiplier(rarity)) \div moduleDivisor(axis)

\* variant: division rounded to the nearest integer
calculateSpaceshipBonusRounded(biome, rarity, spaceshipType, axis) ==
    IF getSpaceshipRoleBonus(spaceshipType, axis) = 0 THEN 0
    ELSE RoundDiv((getBiomeBonus(biome) + getSpaceshipRoleBonus(spaceshipType, axis))
                     * getRarityMultiplier(rarity), 100)

calculateSpaceshipBonus(biome, rarity, spaceshipType, axis) ==
    IF getSpaceshipRoleBonus(spaceshipType, axis) = 0 THEN 0
    ELSE ((getBiomeBonus(biome) + getSpaceshipRoleBonus(spaceshipType, axis))
             * getRarityMultiplier(rarity)) \div 100

ZeroBonus == [x \in Axes |-> 0]
ModuleBonusOf(biome, rarity, moduleType) ==
    [x \in Axes |-> calculateModuleBonus(biome, rarity, moduleType, x)]
SpaceshipBonusOf(biome, rarity, spaceshipType) ==
    [x \in Axes |-> calculateSpaceshipBonus(biome, rarity, spaceshipType, x)]

\* ------------------------------------------------------------ module slots
getSlotIndexForSlotType(slotType) ==
    IF slotType = ENGINES_SLOT THEN 1
    ELSE IF slotType = WEAPONS_SLOT THEN 2
    ELSE 3

getSlotTypeForModuleType(moduleType) == moduleType

getModuleLimit(spaceshipType, slotType) ==
    CASE spaceshipType = 1 -> 1
      [] spaceshipType = 2 -> 2
      [] spaceshipType = 3 -> (IF slotType = ENGINES_SLOT THEN 3
                               ELSE IF slotType = WEAPONS_SLOT THEN 4 ELSE 2)
      [] spaceshipType = 4 -> (IF slotType = WEAPONS_SLOT THEN 2 ELSE 4)

\* ------------------------------------------------------------------- state
VARIABLES
    now,               \* block.timestamp
    material,          \* Planet.materials: planet -> kind -> balance (1/1000 units)
    artifactStorage,   \* Planet.artifactStorage: planet -> set of artifact ids held
    craftingCount,     \* FoundryCraftingCount: planet -> [count, lastCraftTime]
    branchLevel,       \* FoundryUpgrade.branchLevel: planet -> 0..2
    counter,           \* Counter.artifact: id of the last artifact created
    artifactTable,     \* Artifact: id -> [artifactIndex, rarity, biome]
    artifactOwner,     \* ArtifactOwner: id -> planet holding it (0: no record)
    craftedSpaceship,  \* CraftedSpaceship: id -> [spaceshipType, biome, rarity, craftedAt, crafter]
    craftedModules,    \* CraftedModules: id -> [moduleType, biome, rarity, craftedAt, crafter]
    spaceshipBonus,    \* SpaceshipBonus: id -> axis -> uint16
    moduleBonus,       \* ModuleBonus: id -> axis -> uint16
    spaceshipSlot,     \* SpaceshipSlot: id -> slotIndex -> [moduleSlotType, moduleId]
    moduleInstalled,   \* SpaceshipModuleInstalled: id -> [artifactId, moduleSlotType, installed]
    last               \* the last transaction: which call it was, by whom, on which
                       \* planet, and its outcome; its arguments when it committed

craftVars == <<material, craftingCount, counter, artifactTable, craftedSpaceship,
               craftedModules, moduleBonus>>
shipVars == <<artifactStorage, artifactOwner, spaceshipBonus, spaceshipSlot, moduleInstalled>>
world == <<material, artifactStorage, craftingCount, branchLevel, counter, artifactTable,
           artifactOwner, craftedSpaceship, craftedModules, spaceshipBonus, moduleBonus,
           spaceshipSlot, moduleInstalled>>
vars == <<now, world, last>>

NoArtifact == [artifactIndex |-> 0, rarity |-> 0, biome |-> 0]
NoSpaceship == [spaceshipType |-> 0, biome |-> 0, rarity |-> 0, craftedAt |-> 0, crafter |-> "none"]
NoModule == [moduleType |-> 0, biome |-> 0, rarity |-> 0, craftedAt |-> 0, crafter |-> "none"]
EmptySlot == [moduleSlotType |-> 0, moduleId |-> 0]
NotInstalled == [artifactId |-> 0, moduleSlotType |-> 0, installed |-> FALSE]
SlotIndexes == 1..3

Call(op, sender, planet, type, spaceshipId, moduleId, materials, amounts, result) ==
    [op |-> op, sender |-> sender, planet |-> planet,
     type |-> IF result = "ok" THEN type ELSE 0,
     spaceshipId |-> IF result = "ok" THEN spaceshipId ELSE 0,
     moduleId |-> IF result = "ok" THEN moduleId ELSE 0,
     materials |-> IF result = "ok" THEN materials ELSE <<>>,
     amounts |-> IF result = "ok" THEN amounts ELSE <<>>, result |-> result]

\* balances the admin gives a foundry before play (df__addMaterial), per kind
InitBalances == {1000000}
InitBalancesCraft == {100000, 1000000}

InitWith(balances) ==
    /\ now = 1
    /\ \E b1 \in balances :
          material = [p \in Planets |-> [k \in Kinds |->
                         IF p = 1 THEN b1 ELSE IF p = 2 THEN 1000000 ELSE 0]]
    /\ artifactStorage = [p \in Planets |-> {}]
    /\ craftingCount = [p \in Planets |-> [count |-> 0, lastCraftTime |-> 0]]
    /\ branchLevel = [p \in Planets |-> 0]
    /\ counter = 0
    /\ artifactTable = [a \in ArtifactIds |-> NoArtifact]
    /\ artifactOwner = [a \in ArtifactIds |-> 0]
    /\ craftedSpaceship = [a \in ArtifactIds |-> NoSpaceship]
    /\ craftedModules = [a \in ArtifactIds |-> NoModule]
    /\ spaceshipBonus = [a \in ArtifactIds |-> ZeroBonus]
    /\ moduleBonus = [a \in ArtifactIds |-> ZeroBonus]
    /\ spaceshipSlot = [a \in ArtifactIds |-> [i \in SlotIndexes |-> EmptySlot]]
    /\ moduleInstalled = [a \in ArtifactIds |-> NotInstalled]
    /\ last = Call("none", "none", 0, 0, 0, 0, <<>>, <<>>, "none")

Init == InitWith(InitBalances)
InitCraft == InitWith(InitBalancesCraft)

\* --------------------------------------------------------------- crafting
\* Planet.hasArtifactSlot (the storage holds ArtifactSlots ids)
hasArtifactSlot(storage) == Cardinality(storage) < ArtifactSlots

\* the outcome of validation alone
CraftOutcomeNoPanic(isModule, foundry, executor, type, materials, amounts) ==
    validateCrafting(foundry, executor, isModule, type, materials, amounts,
                     craftingCount[foundry].count, branchLevel[foundry], material[foundry])

\* outcome of craftSpaceship / craftModule in the current state
CraftOutcome(isModule, foundry, executor, type, materials, amounts) ==
    LET v == validateCrafting(foundry, executor, isModule, type, materials, amounts,
                              craftingCount[foundry].count, branchLevel[foundry],
                              material[foundry])
    IN  IF v # "ok" THEN v
        ELSE IF ConsumeUnderflows(materials, amounts, material[foundry]) THEN "Panic"
        ELSE IF ~hasArtifactSlot(artifactStorage[foundry]) THEN "ArtifactStorageFull"
        ELSE "ok"

\* the public view getCraftingMMultiplier / getCraftingMultiplier of a foundry
getCraftingMMultiplier(foundryHash) ==
    getCraftingMultiplier(craftingCount[foundryHash].count)

\* faulty variant: the new artifact replaces what the foundry held
pushArtifactReplacing(storage, id) == {id}

\* foundry.pushArtifact of _executeCrafting
pushArtifact(storage, id) == storage \cup {id}

\* faulty variant: the count not incremented
nextCountStuck(count) == count

\* the count written back by _executeCrafting (lines 261-264)
nextCount(count) == count + 1

Craft(isModule, foundry, executor, type, materials, amounts, biome, seed) ==
    LET res == CraftOutcome(isModule, foundry, executor, type, materials, amounts)
        id == counter + 1
        rarity == IF isModule THEN calculateModuleRarity(planetLevel(foundry), seed)
                  ELSE calculateSpaceshipRarity(planetLevel(foundry), seed)
        b == IF biome = 0 \/ biome > 10 THEN planetBiome(foundry) ELSE biome
        op == IF isModule THEN "craftModule" ELSE "craftSpaceship"
    IN  /\ last' = Call(op, executor, foundry, type, 0, 0, materials, amounts, res)
        /\ IF res = "ok"
           THEN /\ counter < MaxArtifacts
                /\ material' = [material EXCEPT
                       ![foundry] = ConsumeMaterials(materials, amounts, material[foundry])]
                /\ artifactTable' = [artifactTable EXCEPT ![id] =
                       [artifactIndex |-> IF isModule THEN MODULE_INDEX ELSE SPACESHIP_INDEX,
                        rarity |-> rarity, biome |-> b]]
                /\ IF isModule
                   THEN /\ craftedModules' = [craftedModules EXCEPT ![id] =
                               [moduleType |-> type, biome |-> b, rarity |-> rarity,
                                craftedAt |-> now, crafter |-> executor]]
                        /\ moduleBonus' = [moduleBonus EXCEPT ![id] = ModuleBonusOf(b, rarity, type)]
                        /\ UNCHANGED <<craftedSpaceship, spaceshipBonus>>
                   ELSE /\ craftedSpaceship' = [craftedSpaceship EXCEPT ![id] =
                               [spaceshipType |-> type, biome |-> b, rarity |-> rarity,
                                craftedAt |-> now, crafter |-> executor]]
                        /\ spaceshipBonus' = [spaceshipBonus EXCEPT ![id] =
                               SpaceshipBonusOf(b, rarity, type)]
                        /\ UNCHANGED <<craftedModules, moduleBonus>>
                /\ artifactStorage' = [artifactStorage EXCEPT ![foundry] = pushArtifact(@, id)]
                /\ artifactOwner' = [artifactOwner EXCEPT ![id] = foundry]
                /\ craftingCount' = [craftingCount EXCEPT ![foundry] =
                       [count |-> nextCount(craftingCount[foundry].count), lastCraftTime |-> now]]
                /\ counter' = id
                /\ UNCHANGED <<now, branchLevel, spaceshipSlot, moduleInstalled>>
           ELSE UNCHANGED <<now, world>>

\* ------------------------------------------------- module install / uninstall
\* the tables installModule and uninstallModule write
Ship == [artifactStorage |-> artifactStorage, artifactOwner |-> artifactOwner,
         spaceshipBonus |-> spaceshipBonus, spaceshipSlot |-> spaceshipSlot,
         moduleInstalled |-> moduleInstalled]

countInstalledModulesAll(S, spaceshipId, slotType) ==
    Cardinality({m \in ArtifactIds : /\ S.moduleInstalled[m].installed
                                     /\ S.moduleInstalled[m].artifactId = spaceshipId
                                     /\ S.moduleInstalled[m].moduleSlotType = slotType})

countInstalledModules(S, spaceshipId, slotType) ==
    LET slot == S.spaceshipSlot[spaceshipId][getSlotIndexForSlotType(slotType)]
    IN  IF slot.moduleId > 0 /\ slot.moduleSlotType = slotType THEN 1 ELSE 0

\* faulty variant: no limit check at all
slotCheckNoLimit(S, spaceshipId, moduleId, spaceshipType, slotType) == "ok"

\* the slot check at the end of _validateInstallModule (lines 192-218)
slotCheck(S, spaceshipId, moduleId, spaceshipType, slotType) ==
    LET slot == S.spaceshipSlot[spaceshipId][getSlotIndexForSlotType(slotType)]
    IN  IF slot.moduleId > 0 /\ slot.moduleId # moduleId /\ slot.moduleSlotType = slotType
           /\ countInstalledModules(S, spaceshipId, slotType)
                 >= getModuleLimit(spaceshipType, slotType)
        THEN "ModuleSlotFull"
        ELSE "ok"

\* faulty variant: the module's planet not checked
validateInstallModuleAnywhere(S, planet, executor, spaceshipId, moduleId) ==
    IF planetOwner(planet) # executor THEN "NotPlanetOwner"
    ELSE IF S.artifactOwner[spaceshipId] # planet THEN "ArtifactNotOnPlanet1"
    ELSE IF artifactTable[spaceshipId].artifactIndex # SPACESHIP_INDEX THEN "InvalidSpaceshipArtifact"
    ELSE IF artifactTable[moduleId].artifactIndex # MODULE_INDEX THEN "InvalidModuleArtifact"
    ELSE IF /\ S.moduleInstalled[moduleId].installed
            /\ S.moduleInstalled[moduleId].artifactId > 0
            /\ S.moduleInstalled[moduleId].artifactId # spaceshipId
         THEN "ModuleAlreadyInstalled"
    ELSE IF craftedSpaceship[spaceshipId].spaceshipType = 0 THEN "InvalidSpaceshipArtifact"
    ELSE IF craftedModules[moduleId].moduleType = 0 THEN "InvalidModuleArtifact"
    ELSE slotCheck(S, spaceshipId, moduleId, craftedSpaceship[spaceshipId].spaceshipType,
                   getSlotTypeForModuleType(craftedModules[moduleId].moduleType))

validateInstallModule(S, planet, executor, spaceshipId, moduleId) ==
    IF planetOwner(planet) # executor THEN "NotPlanetOwner"
    ELSE IF S.artifactOwner[spaceshipId] # planet THEN "ArtifactNotOnPlanet1"
    ELSE IF artifactTable[spaceshipId].artifactIndex # SPACESHIP_INDEX THEN "InvalidSpaceshipArtifact"
    ELSE IF S.artifactOwner[moduleId] # planet THEN "ArtifactNotOnPlanet2"
    ELSE IF artifactTable[moduleId].artifactIndex # MODULE_INDEX THEN "InvalidModuleArtifact"
    ELSE IF /\ S.moduleInstalled[moduleId].installed
            /\ S.moduleInstalled[moduleId].artifactId > 0
            /\ S.moduleInstalled[moduleId].artifactId # spaceshipId
         THEN "ModuleAlreadyInstalled"
    ELSE IF craftedSpaceship[spaceshipId].spaceshipType = 0 THEN "InvalidSpaceshipArtifact"
    ELSE IF craftedModules[moduleId].moduleType = 0 THEN "InvalidModuleArtifact"
    ELSE slotCheck(S, spaceshipId, moduleId, craftedSpaceship[spaceshipId].spaceshipType,
                   getSlotTypeForModuleType(craftedModules[moduleId].moduleType))

\* checked uint16 addition of the module's bonuses (lines 242-245)
AddOverflows(S, spaceshipId, moduleId) ==
    \E x \in Axes : S.spaceshipBonus[spaceshipId][x] + moduleBonus[moduleId][x] > UINT16_MAX

\* faulty variant: the module's bonus not added
addBonusesNoop(current, delta) == current

\* faulty variant: the module's bonus added twice
addBonusesTwice(current, delta) == [x \in Axes |-> current[x] + 2 * delta[x]]

addBonuses(current, delta) == [x \in Axes |-> current[x] + delta[x]]

\* faulty variant: nothing subtracted
subtractBonusesNoop(current, delta) == current

subtractBonuses(current, delta) ==
    [x \in Axes |-> IF current[x] >= delta[x] THEN current[x] - delta[x] ELSE 0]

\* faulty variant: the module left in the planet's storage
executeInstallModuleKeepsArtifact(S, spaceshipId, moduleId, planet) ==
    LET slotType == getSlotTypeForModuleType(craftedModules[moduleId].moduleType)
        slotIndex == getSlotIndexForSlotType(slotType)
    IN  [artifactStorage |-> S.artifactStorage,
         artifactOwner |-> S.artifactOwner,
         spaceshipBonus |-> [S.spaceshipBonus EXCEPT ![spaceshipId] =
                                addBonuses(@, moduleBonus[moduleId])],
         spaceshipSlot |-> [S.spaceshipSlot EXCEPT ![spaceshipId][slotIndex] =
                               [moduleSlotType |-> slotType, moduleId |-> moduleId]],
         moduleInstalled |-> [S.moduleInstalled EXCEPT ![moduleId] =
                                 [artifactId |-> spaceshipId, moduleSlotType |-> slotType,
                                  installed |-> TRUE]]]

executeInstallModule(S, spaceshipId, moduleId, planet) ==
    LET slotType == getSlotTypeForModuleType(craftedModules[moduleId].moduleType)
        slotIndex == getSlotIndexForSlotType(slotType)
    IN  [artifactStorage |-> [S.artifactStorage EXCEPT ![planet] = @ \ {moduleId}],
         artifactOwner |-> [S.artifactOwner EXCEPT ![moduleId] = 0],
         spaceshipBonus |-> [S.spaceshipBonus EXCEPT ![spaceshipId] =
                                addBonuses(@, moduleBonus[moduleId])],
         spaceshipSlot |-> [S.spaceshipSlot EXCEPT ![spaceshipId][slotIndex] =
                               [moduleSlotType |-> slotType, moduleId |-> moduleId]],
         moduleInstalled |-> [S.moduleInstalled EXCEPT ![moduleId] =
                                 [artifactId |-> spaceshipId, moduleSlotType |-> slotType,
                                  installed |-> TRUE]]]

InstallOutcome(S, planet, executor, spaceshipId, moduleId) ==
    LET v == validateInstallModule(S, planet, executor, spaceshipId, moduleId)
    IN  IF v # "ok" THEN v
        ELSE IF AddOverflows(S, spaceshipId, moduleId) THEN "Panic"
        ELSE "ok"

\* faulty variant: the installed record not consulted
validateUninstallModuleNoRecord(S, planet, executor, spaceshipId, moduleId) ==
    IF planetOwner(planet) # executor THEN "NotPlanetOwner"
    ELSE IF spaceshipId \notin S.artifactStorage[planet] THEN "ArtifactNotOnPlanet3"
    ELSE "ok"

\* faulty variant: the carrier's slot record consulted instead of the installed record
validateUninstallModuleBySlot(S, planet, executor, spaceshipId, moduleId) ==
    IF planetOwner(planet) # executor THEN "NotPlanetOwner"
    ELSE IF spaceshipId \notin S.artifactStorage[planet] THEN "ArtifactNotOnPlanet3"
    ELSE IF \A i \in SlotIndexes : S.spaceshipSlot[spaceshipId][i].moduleId # moduleId
         THEN "ModuleNotInstalled"
    ELSE "ok"

validateUninstallModule(S, planet, executor, spaceshipId, moduleId) ==
    IF planetOwner(planet) # executor THEN "NotPlanetOwner"
    ELSE IF spaceshipId \notin S.artifactStorage[planet] THEN "ArtifactNotOnPlanet3"
    ELSE IF S.moduleInstalled[moduleId].artifactId # spaceshipId THEN "ModuleNotInstalled"
    ELSE "ok"

executeUninstallModule(S, spaceshipId, moduleId, planet) ==
    LET slotType == S.moduleInstalled[moduleId].moduleSlotType
        slotIndex == getSlotIndexForSlotType(slotType)
    IN  [artifactStorage |-> [S.artifactStorage EXCEPT ![planet] = @ \cup {moduleId}],
         artifactOwner |-> [S.artifactOwner EXCEPT ![moduleId] = planet],
         spaceshipBonus |-> [S.spaceshipBonus EXCEPT ![spaceshipId] =
                                subtractBonuses(@, moduleBonus[moduleId])],
         spaceshipSlot |-> [S.spaceshipSlot EXCEPT ![spaceshipId][slotIndex] =
                               [moduleSlotType |-> slotType, moduleId |-> 0]],
         moduleInstalled |-> [S.moduleInstalled EXCEPT ![moduleId] = NotInstalled]]

\* faulty variant: the storage capacity not consulted
UninstallOutcomeNoCapacity(S, planet, executor, spaceshipId, moduleId) ==
    validateUninstallModule(S, planet, executor, spaceshipId, moduleId)

UninstallOutcome(S, planet, executor, spaceshipId, moduleId) ==
    LET v == validateUninstallModule(S, planet, executor, spaceshipId, moduleId)
    IN  IF v # "ok" THEN v
        ELSE IF ~hasArtifactSlot(S.artifactStorage[planet]) THEN "ArtifactStorageFull"
        ELSE "ok"

\* faulty variant: the list read from the carrier's slot records
useInstalledModulesOfSlots(S, spaceshipId) ==
    {[moduleId |-> S.spaceshipSlot[spaceshipId][i].moduleId,
      moduleType |-> craftedModules[S.spaceshipSlot[spaceshipId][i].moduleId].moduleType,
      moduleSlotType |-> S.spaceshipSlot[spaceshipId][i].moduleSlotType] :
        i \in {j \in SlotIndexes : S.spaceshipSlot[spaceshipId][j].moduleId > 0}}

\* the client's list of the modules installed on a carrier: every entry of
\* SpaceshipModuleInstalled naming the carrier with the installed flag set and a slot
\* type, with the module's type from CraftedModules
useInstalledModules(S, spaceshipId) ==
    {[moduleId |-> m, moduleType |-> craftedModules[m].moduleType,
      moduleSlotType |-> S.moduleInstalled[m].moduleSlotType] :
        m \in {k \in ArtifactIds : /\ S.moduleInstalled[k].artifactId = spaceshipId
                                   /\ S.moduleInstalled[k].installed
                                   /\ S.moduleInstalled[k].moduleSlotType > 0
                                   /\ craftedModules[k].moduleType \in 1..4}}

SetShip(S) ==
    /\ artifactStorage' = S.artifactStorage
    /\ artifactOwner' = S.artifactOwner
    /\ spaceshipBonus' = S.spaceshipBonus
    /\ spaceshipSlot' = S.spaceshipSlot
    /\ moduleInstalled' = S.moduleInstalled

installModule(spaceshipId, moduleId, planet, executor) ==
    LET res == InstallOutcome(Ship, planet, executor, spaceshipId, moduleId)
    IN  /\ last' = Call("installModule", executor, planet, 0, spaceshipId, moduleId, <<>>, <<>>, res)
        /\ IF res = "ok"
           THEN /\ SetShip(executeInstallModule(Ship, spaceshipId, moduleId, planet))
                /\ UNCHANGED <<now, craftVars, branchLevel>>
           ELSE UNCHANGED <<now, world>>

uninstallModule(spaceshipId, moduleId, planet, executor) ==
    LET res == UninstallOutcome(Ship, planet, executor, spaceshipId, moduleId)
    IN  /\ last' = Call("uninstallModule", executor, planet, 0, spaceshipId, moduleId, <<>>, <<>>, res)
        /\ IF res = "ok"
           THEN /\ SetShip(executeUninstallModule(Ship, spaceshipId, moduleId, planet))
                /\ UNCHANGED <<now, craftVars, branchLevel>>
           ELSE UNCHANGED <<now, world>>

\* ---------------------------------------------------------------- movement
\* df__move carrying an artifact: the artifact leaves the storage of the planet
\* it departs from and, on arrival, enters the storage of the target planet
moveArtifact(from, to, executor, artifactId) ==
    /\ planetOwner(from) = executor
    /\ from # to
    /\ artifactId \in artifactStorage[from]
    /\ hasArtifactSlot(artifactStorage[to])
    /\ artifactStorage' = [artifactStorage EXCEPT ![from] = @ \ {artifactId},
                                                  ![to] = @ \cup {artifactId}]
    /\ artifactOwner' = [artifactOwner EXCEPT ![artifactId] = to]
    /\ last' = Call("move", executor, from, 0, artifactId, 0, <<>>, <<>>, "ok")
    /\ UNCHANGED <<now, craftVars, branchLevel, spaceshipBonus, spaceshipSlot, moduleInstalled>>

\* ----------------------------------------------------------- foundry upgrade
\* fees in units of 10^10 wei
BASE_UPGRADE_FEE_LEVEL_1 == 5000
BASE_UPGRADE_FEE_LEVEL_2 == 10000
EntryFee == 100

getBiomeMultiplier(biome) ==
    IF biome >= 1 /\ biome <= 3 THEN 100
    ELSE IF biome >= 4 /\ biome <= 6 THEN 150
    ELSE IF biome >= 7 /\ biome <= 9 THEN 200
    ELSE IF biome = 10 THEN 250
    ELSE 100

RECURSIVE MaxOver(_, _)
MaxOver(S, f) ==
    IF S = {} THEN 0
    ELSE LET x == CHOOSE y \in S : TRUE IN Max(f[x], MaxOver(S \ {x}, f))

getHighestArtifactRarityMultiplier(storage) ==
    Max(100, MaxOver(storage, [a \in ArtifactIds |-> getRarityMultiplier(artifactTable[a].rarity)]))

upgradeTotalFee(foundry, currentLevel) ==
    ((IF currentLevel = 0 THEN BASE_UPGRADE_FEE_LEVEL_1 ELSE BASE_UPGRADE_FEE_LEVEL_2)
        * getBiomeMultiplier(planetBiome(foundry))
        * getHighestArtifactRarityMultiplier(artifactStorage[foundry])) \div 10000

\* faulty variant: no maximum upgrade level
validateUpgradeNoCap(foundry, executor, currentLevel) ==
    IF planetOwner(foundry) # executor THEN "NotPlanetOwner"
    ELSE IF planetType(foundry) # "FOUNDRY" THEN "InvalidPlanetType"
    ELSE IF planetLevel(foundry) < MIN_FOUNDRY_LEVEL THEN "PlanetLevelTooLow"
    ELSE "ok"

\* faulty variant: the caller not compared with the owner
validateUpgradeNoOwner(foundry, executor, currentLevel) ==
    IF planetType(foundry) # "FOUNDRY" THEN "InvalidPlanetType"
    ELSE IF planetLevel(foundry) < MIN_FOUNDRY_LEVEL THEN "PlanetLevelTooLow"
    ELSE IF currentLevel >= MAX_UPGRADE_LEVEL THEN "FoundryAtMaxUpgradeLevel"
    ELSE "ok"

validateUpgrade(foundry, executor, currentLevel) ==
    IF planetOwner(foundry) # executor THEN "NotPlanetOwner"
    ELSE IF planetType(foundry) # "FOUNDRY" THEN "InvalidPlanetType"
    ELSE IF planetLevel(foundry) < MIN_FOUNDRY_LEVEL THEN "PlanetLevelTooLow"
    ELSE IF currentLevel >= MAX_UPGRADE_LEVEL THEN "FoundryAtMaxUpgradeLevel"
    ELSE "ok"

UpgradeOutcome(foundry, executor, msgValue) ==
    LET v == validateUpgrade(foundry, executor, branchLevel[foundry])
    IN  IF v # "ok" THEN v
        ELSE IF msgValue < EntryFee + upgradeTotalFee(foundry, branchLevel[foundry])
             THEN "InsufficientFoundryUpgradeFee"
        ELSE "ok"

\* faulty variant: a successful upgrade starts the craft count again
upgradeFoundryResetsCount(foundry, executor, msgValue) ==
    LET res == UpgradeOutcome(foundry, executor, msgValue)
    IN  /\ last' = Call("upgradeFoundry", executor, foundry, 0, 0, 0, <<>>, <<msgValue>>, res)
        /\ IF res = "ok"
           THEN /\ branchLevel' = [branchLevel EXCEPT ![foundry] = @ + 1]
                /\ craftingCount' = [craftingCount EXCEPT ![foundry].count = 0]
                /\ UNCHANGED <<now, material, counter, artifactTable, craftedSpaceship,
                               craftedModules, moduleBonus, shipVars>>
           ELSE UNCHANGED <<now, world>>

upgradeFoundry(foundry, executor, msgValue) ==
    LET res == UpgradeOutcome(foundry, executor, msgValue)
    IN  /\ last' = Call("upgradeFoundry", executor, foundry, 0, 0, 0, <<>>, <<msgValue>>, res)
        /\ IF res = "ok"
           THEN /\ branchLevel' = [branchLevel EXCEPT ![foundry] = @ + 1]
                /\ UNCHANGED <<now, craftVars, shipVars>>
           ELSE UNCHANGED <<now, world>>

\* ------------------------------------------------------------------- time
Tick ==
    /\ now < MaxTime
    /\ now' = now + 1
    /\ UNCHANGED <<world, last>>

\* ------------------------------------------------------------ call data sets
\* seeds: one per level boost (+2, +1, none)
SeedBoost2 == 0
SeedBoost1 == 262144
SeedNoBoost == 1048576

KindsOf(recipe) == [i \in 1..Len(recipe) |-> recipe[i].kind]
ScaledOf(recipe, mult, d) ==
    [i \in 1..Len(recipe) |-> expectedAmountWithMultiplier(recipe[i].amount, mult) + d[i]]
\* what the client sends: Math.ceil(base * multiplier)
ClientAmounts(recipe, mult) ==
    [i \in 1..Len(recipe) |-> CeilDiv(recipe[i].amount * mult, 100)]
BaseAmounts(recipe) == [i \in 1..Len(recipe) |-> recipe[i].amount]

AmountOffsets == {<<0, 0>>, <<1, 1>>, <<0 - 1, 0>>, <<0, 0 - 1>>, <<2, 0>>, <<0, 2>>}

\* amounts tried for a recipe at a multiplier, around the contract's window
OffsetShapes(recipe, mult) ==
    {[materials |-> KindsOf(recipe), amounts |-> ScaledOf(recipe, mult, d)] : d \in AmountOffsets}
        \cup {[materials |-> KindsOf(recipe), amounts |-> BaseAmounts(recipe)]}

\* malformed material lists for a recipe at a multiplier
ListShapes(recipe, other, mult) ==
    LET ks == KindsOf(recipe)
        ex == ScaledOf(recipe, mult, <<0, 0>>)
    IN  {[materials |-> <<ks[2], ks[1]>>, amounts |-> <<ex[2], ex[1]>>],
         [materials |-> <<ks[1]>>, amounts |-> <<ex[1]>>],
         [materials |-> <<ks[1], ks[2], other[1].kind>>, amounts |-> <<ex[1], ex[2], 1>>],
         [materials |-> <<ks[1], ks[1]>>, amounts |-> ex],
         [materials |-> <<ks[1], other[1].kind>>, amounts |-> ex],
         [materials |-> KindsOf(other), amounts |-> ScaledOf(other, mult, <<0, 0>>)],
         [materials |-> ks, amounts |-> <<ex[1]>>],
         [materials |-> <<>>, amounts |-> <<>>]}

CraftCall(isModule, foundry, executor, type, sh) ==
    [isModule |-> isModule, foundry |-> foundry, executor |-> executor, type |-> type,
     materials |-> sh.materials, amounts |-> sh.amounts]

\* calls of the crafting-focused specification
CraftPairs == {<<FALSE, 1>>, <<FALSE, 4>>, <<TRUE, 1>>}
CraftCalls ==
    LET mult == getCraftingMultiplier(craftingCount[1].count)
        plain == [materials |-> <<"WINDSTEEL", "AURORIUM">>, amounts |-> <<80, 40>>]
    IN  UNION {{CraftCall(pr[1], 1, "user1", pr[2], sh) :
                      sh \in OffsetShapes(Recipe(pr[1], pr[2]), mult)} : pr \in CraftPairs}
        \cup {CraftCall(TRUE, 1, "user1", 1, sh) :
                 sh \in ListShapes(Recipe(TRUE, 1), Recipe(TRUE, 2), mult)}
        \cup {CraftCall(TRUE, 1, "user2", 1, plain), CraftCall(FALSE, 3, "user1", 1, plain),
              CraftCall(TRUE, 4, "user1", 1, plain), CraftCall(TRUE, 1, "user1", 0, plain),
              CraftCall(FALSE, 1, "user1", 5, plain)}

CraftAny ==
    \E c \in CraftCalls :
        Craft(c.isModule, c.foundry, c.executor, c.type, c.materials, c.amounts, 0, SeedNoBoost)

\* upgrade calls: the owner on each planet paying the fee or one unit less, a stranger
UpgradeCalls ==
    {[foundry |-> 1, executor |-> "user1", short |-> sh] : sh \in {0, 1}}
        \cup {[foundry |-> 1, executor |-> "user2", short |-> 0],
              [foundry |-> 3, executor |-> "user1", short |-> 0],
              [foundry |-> 4, executor |-> "user1", short |-> 0]}

UpgradeAny ==
    \E c \in UpgradeCalls :
        upgradeFoundry(c.foundry, c.executor,
            EntryFee + upgradeTotalFee(c.foundry, branchLevel[c.foundry]) - c.short)

\* calls of the main specification: the amounts the client computes
MainPairs(foundry) ==
    IF foundry = 1 THEN {<<FALSE, 1>>, <<TRUE, 3>>, <<TRUE, 4>>} ELSE {<<TRUE, 3>>}
MainSeeds == {SeedNoBoost}
CraftClient ==
    \E foundry \in {1, 2}, executor \in Users, seed \in MainSeeds :
        \E pr \in MainPairs(foundry) :
            /\ executor = "user2" => pr = <<TRUE, 3>> /\ foundry = 1
            /\ LET recipe == Recipe(pr[1], pr[2])
                   mult == getCraftingMultiplier(craftingCount[foundry].count)
               IN  Craft(pr[1], foundry, executor, pr[2], KindsOf(recipe),
                         ClientAmounts(recipe, mult), 0, seed)

InstallAny ==
    \E executor \in Users, spaceshipId \in ArtifactIds, moduleId \in ArtifactIds :
        installModule(spaceshipId, moduleId, 1, executor)

UninstallAny ==
    \E executor \in Users, spaceshipId \in ArtifactIds, moduleId \in ArtifactIds :
        uninstallModule(spaceshipId, moduleId, 1, executor)

MoveAny ==
    \E artifactId \in ArtifactIds : moveArtifact(2, 1, "user1", artifactId)

Next == CraftClient \/ UpgradeAny \/ InstallAny \/ UninstallAny \/ MoveAny
Spec == Init /\ [][Next]_vars

\* calls of the bonus-focused specification: every role, biome and level boost
BonusBiomes(foundry) == IF foundry = 1 THEN 0..11 ELSE {0}
CraftBonus ==
    \E foundry \in {1, 2}, isModule \in BOOLEAN, type \in 1..4,
       seed \in {SeedBoost2, SeedBoost1, SeedNoBoost} :
        \E biome \in BonusBiomes(foundry) :
            /\ foundry = 2 => isModule
            /\ LET recipe == Recipe(isModule, type)
                   mult == getCraftingMultiplier(craftingCount[foundry].count)
               IN  Craft(isModule, foundry, "user1", type, KindsOf(recipe),
                         ClientAmounts(recipe, mult), biome, seed)

SpecBonus == Init /\ [][CraftBonus]_vars

NextCraft == CraftAny \/ UpgradeAny \/ Tick
SpecCraft == InitCraft /\ [][NextCraft]_vars

\* ================================================================ properties
Carriers == {c \in ArtifactIds : craftedSpaceship[c].spaceshipType # 0}
Modules == {m \in ArtifactIds : craftedModules[m].moduleType # 0}
InstalledOn(c) ==
    {m \in ArtifactIds : moduleInstalled[m].installed /\ moduleInstalled[m].artifactId = c}

RECURSIVE SumBonus(_, _)
SumBonus(S, x) ==
    IF S = {} THEN 0
    ELSE LET m == CHOOSE y \in S : TRUE IN moduleBonus[m][x] + SumBonus(S \ {m}, x)

\* the bonus a carrier was crafted with, recomputed from its CraftedSpaceship record
OwnBonus(c, x) ==
    calculateSpaceshipBonus(craftedSpaceship[c].biome, craftedSpaceship[c].rarity,
                            craftedSpaceship[c].spaceshipType, x)

\* C1 as stated: on each of the 4 axes a carrier's stored bonus equals the sum of the
\* bonuses of the modules currently installed on it.
C1_AggregatedIsModuleSum ==
    \A c \in Carriers : \A x \in Axes : spaceshipBonus[c][x] = SumBonus(InstalledOn(c), x)

\* C1 amended: on each of the 4 axes a carrier's stored bonus equals the bonus the carrier
\* was crafted with plus the sum of the bonuses of the modules currently installed on it.
C1_AggregatedIsOwnPlusModuleSum ==
    \A c \in Carriers : \A x \in Axes :
        spaceshipBonus[c][x] = OwnBonus(c, x) + SumBonus(InstalledOn(c), x)

\* a carrier with two modules on it, after a third one was taken off
C1_Witness ==
    /\ last.op = "uninstallModule" /\ last.result = "ok"
    /\ Cardinality(InstalledOn(last.spaceshipId)) = 2
    /\ \E x \in Axes : SumBonus(InstalledOn(last.spaceshipId), x) > 0
    /\ \E x \in Axes : OwnBonus(last.spaceshipId, x) > 0

\* C2: for every carrier and slot category, the number of modules recorded as installed
\* on the carrier in that category is at most the limit of the carrier type.
C2_SlotOccupancyWithinLimit ==
    \A c \in Carriers : \A k \in {ENGINES_SLOT, WEAPONS_SLOT, HULL_SLOT, SHIELD_SLOT} :
        countInstalledModulesAll(Ship, c, k) <= getModuleLimit(craftedSpaceship[c].spaceshipType, k)

\* C3: an install of a module of category k onto a carrier that already has the limit of
\* category k installed is rejected with ModuleSlotFull.
C3_FullCategoryRejected ==
    \A c \in Carriers : \A m \in Modules :
        (/\ artifactOwner[c] = 1 /\ artifactOwner[m] = 1
         /\ countInstalledModulesAll(Ship, c, getSlotTypeForModuleType(craftedModules[m].moduleType))
               >= getModuleLimit(craftedSpaceship[c].spaceshipType,
                                 getSlotTypeForModuleType(craftedModules[m].moduleType)))
        => InstallOutcome(Ship, 1, "user1", c, m) = "ModuleSlotFull"

\* C4: wherever install(M, C) succeeds, the install followed at once by uninstall(M, C)
\* succeeds, leaves the carrier's stored bonus as before the install on all 4 axes, and
\* leaves M on the planet with as many artifacts held as before the install.
C4_InstallUninstallRoundTrip ==
    \A c \in ArtifactIds : \A m \in ArtifactIds :
        InstallOutcome(Ship, 1, "user1", c, m) = "ok" =>
            LET S1 == executeInstallModule(Ship, c, m, 1)
                S2 == executeUninstallModule(S1, c, m, 1)
            IN  /\ UninstallOutcome(S1, 1, "user1", c, m) = "ok"
                /\ S2.spaceshipBonus[c] = spaceshipBonus[c]
                /\ m \in S2.artifactStorage[1]
                /\ Cardinality(S2.artifactStorage[1]) = Cardinality(artifactStorage[1])

\* a module with a bonus just taken off a carrier that still has another one, and that
\* can be installed on it again
C4_Witness ==
    /\ last.op = "uninstallModule" /\ last.result = "ok"
    /\ InstallOutcome(Ship, 1, "user1", last.spaceshipId, last.moduleId) = "ok"
    /\ \E x \in Axes : moduleBonus[last.moduleId][x] > 0
    /\ InstalledOn(last.spaceshipId) # {}

\* the multiplier table of the claims: 100 / 150 / 225 percent
MultiplierPercent(c) == CASE c = 0 -> 100 [] c = 1 -> 150 [] OTHER -> 225
CraftOps == {"craftSpaceship", "craftModule"}
\* a craft call that passes the owner, planet type, planet level and type checks
Eligible(c) ==
    /\ c.executor = planetOwner(c.foundry)
    /\ planetType(c.foundry) = "FOUNDRY"
    /\ planetLevel(c.foundry) >= 4
    /\ c.type \in 1..4
OutcomeOf(c) == CraftOutcome(c.isModule, c.foundry, c.executor, c.type, c.materials, c.amounts)

C6_AtLimitOutcome ==
    \A c \in CraftCalls :
        (Eligible(c) /\ craftingCount[c.foundry].count >= 1 + branchLevel[c.foundry])
            => OutcomeOf(c) = "FoundryCraftingLimitReached"

C6_AtLimitNothingChanges ==
    [][last'.result = "FoundryCraftingLimitReached" =>
          /\ craftingCount' = craftingCount
          /\ material' = material
          /\ UNCHANGED <<counter, artifactTable, craftedSpaceship, craftedModules, artifactStorage>>]_vars

C7_CraftConsumesCeil ==
    [][(last'.op \in CraftOps /\ last'.result = "ok" /\ counter' = counter + 1) =>
          LET f == last'.planet
              recipe == Recipe(last'.op = "craftModule", last'.type)
              mult == MultiplierPercent(craftingCount[f].count)
          IN  /\ \A i \in 1..Len(recipe) :
                    material'[f][recipe[i].kind] = material[f][recipe[i].kind]
                        - CeilDiv(recipe[i].amount * mult, 100) * MATERIAL_SCALE
              /\ \A k \in Kinds \ {recipe[i].kind : i \in 1..Len(recipe)} :
                    material'[f][k] = material[f][k]
              /\ craftingCount'[f].count = craftingCount[f].count + 1
              /\ craftingCount'[f].lastCraftTime = now]_vars

\* C8: a craft that passes the owner, planet, type, limit and recipe checks while the
\* foundry holds less of some kind than the call would consume is rejected with
\* InsufficientMaterialOnPlanet.
C8_InsufficientRejected ==
    \A c \in CraftCalls :
        (/\ Eligible(c)
         /\ CraftOutcomeNoPanic(c.isModule, c.foundry, c.executor, c.type, c.materials, c.amounts)
               \in {"ok", "InsufficientMaterialOnPlanet"}
         /\ \E i \in 1..Len(c.materials) :
               material[c.foundry][c.materials[i]] < c.amounts[i] * MATERIAL_SCALE)
        => OutcomeOf(c) = "InsufficientMaterialOnPlanet"

BaseAmountsOfRecipes ==
    UNION {{Recipe(m, t)[i].amount : i \in 1..2} : m \in BOOLEAN, t \in 1..4}
FloorAmount(b, c) == (b * MultiplierPercent(c)) \div 100
InWindow(p, b, c) == FloorAmount(b, c) <= p /\ p <= FloorAmount(b, c) + 1

C9_WindowOfCheck ==
    \A b \in BaseAmountsOfRecipes : \A c \in 0..2 :
        \A p \in (FloorAmount(b, c) - 2)..(FloorAmount(b, c) + 3) :
            AmountOutside(p, expectedAmountWithMultiplier(b, getCraftingMultiplier(c)))
                <=> ~InWindow(p, b, c)

C9_WindowOfCalls ==
    \A pr \in CraftPairs :
        \A sh \in OffsetShapes(Recipe(pr[1], pr[2]), getCraftingMultiplier(craftingCount[1].count)) :
            craftingCount[1].count < 1 + branchLevel[1] =>
                ((CraftOutcome(pr[1], 1, "user1", pr[2], sh.materials, sh.amounts)
                     = "InvalidMaterialAmount")
                 <=> \E i \in 1..2 : ~InWindow(sh.amounts[i], Recipe(pr[1], pr[2])[i].amount,
                                               craftingCount[1].count))

C9_RejectionChangesNothing ==
    [][last'.result = "InvalidMaterialAmount" => UNCHANGED world]_vars

BiomeBonusOfClaim(biome) ==
    CASE biome \in 1..3 -> 1 [] biome \in 4..6 -> 2 [] biome \in 7..9 -> 4
      [] biome = 10 -> 8 [] OTHER -> 0
RarityPercent(rarity) ==
    CASE rarity = 1 -> 100 [] rarity = 2 -> 120 [] rarity = 3 -> 150
      [] rarity = 4 -> 200 [] rarity = 5 -> 300
DivisorOfClaim(isModule, x) == IF isModule /\ x = "attack" THEN 400 ELSE 100
RoleBonus(isModule, type, x) ==
    IF isModule THEN getModuleRoleBonus(type, x) ELSE getSpaceshipRoleBonus(type, x)
Numerator(isModule, type, biome, rarity, x) ==
    (BiomeBonusOfClaim(biome) + RoleBonus(isModule, type, x)) * RarityPercent(rarity)
ComputedBonus(isModule, type, biome, rarity, x) ==
    IF isModule THEN calculateModuleBonus(biome, rarity, type, x)
    ELSE calculateSpaceshipBonus(biome, rarity, type, x)
StoredBonus(a, x) ==
    IF craftedModules[a].moduleType # 0 THEN moduleBonus[a][x] ELSE spaceshipBonus[a][x]
CraftedRecord(a) ==
    IF craftedModules[a].moduleType # 0 THEN craftedModules[a] ELSE craftedSpaceship[a]
TypeOfCrafted(a) ==
    IF craftedModules[a].moduleType # 0 THEN craftedModules[a].moduleType
    ELSE craftedSpaceship[a].spaceshipType
Crafted == Carriers \cup Modules

\* C10 as stated: on every axis with a nonzero role bonus the bonus computed and stored at
\* craft time is (biomeBonus + roleBonus) * rarityPercent / D rounded to the nearest
\* integer, D = 400 for the module attack axis and 100 otherwise.
C10_BonusRoundedToNearest ==
    /\ \A isModule \in BOOLEAN, type \in 1..4, biome \in 0..11, rarity \in 1..5, x \in Axes :
          RoleBonus(isModule, type, x) # 0 =>
              ComputedBonus(isModule, type, biome, rarity, x)
                  = RoundDiv(Numerator(isModule, type, biome, rarity, x), DivisorOfClaim(isModule, x))
    /\ \A a \in Crafted : \A x \in Axes :
          RoleBonus(a \in Modules, TypeOfCrafted(a), x) # 0 =>
              StoredBonus(a, x)
                  = RoundDiv(Numerator(a \in Modules, TypeOfCrafted(a), CraftedRecord(a).biome,
                                       CraftedRecord(a).rarity, x),
                             DivisorOfClaim(a \in Modules, x))

\* C10 amended: on every axis with a nonzero role bonus the bonus computed and stored at
\* craft time is (biomeBonus + roleBonus) * rarityPercent / D truncated to an integer,
\* D = 400 for the module attack axis and 100 otherwise.
C10_BonusTruncated ==
    /\ \A isModule \in BOOLEAN, type \in 1..4, biome \in 0..11, rarity \in 1..5, x \in Axes :
          RoleBonus(isModule, type, x) # 0 =>
              ComputedBonus(isModule, type, biome, rarity, x)
                  = Numerator(isModule, type, biome, rarity, x) \div DivisorOfClaim(isModule, x)
    /\ \A a \in Crafted : \A x \in Axes :
          RoleBonus(a \in Modules, TypeOfCrafted(a), x) # 0 =>
              StoredBonus(a, x)
                  = Numerator(a \in Modules, TypeOfCrafted(a), CraftedRecord(a).biome,
                              CraftedRecord(a).rarity, x)
                        \div DivisorOfClaim(a \in Modules, x)

\* a weapon module crafted whose attack bonus is not the nearest integer, next to a
\* mythic module from the other foundry
C10_Witness ==
    /\ \E a \in Modules :
          /\ craftedModules[a].moduleType = 2
          /\ moduleBonus[a]["attack"] > 0
          /\ moduleBonus[a]["attack"] #
                RoundDiv(Numerator(TRUE, 2, craftedModules[a].biome, craftedModules[a].rarity, "attack"), 400)
    /\ \E b \in Modules : craftedModules[b].rarity = MYTHIC

\* C11: for every crafted carrier or module, biome and rarity, the bonus computed and
\* stored at craft time on an axis is 0 exactly when the role bonus on that axis is 0,
\* and strictly positive otherwise; an Engine module at biome bonus 1 and Common rarity
\* has speed 9 and attack 0; a Scout has speed and range but no attack; a Destroyer has
\* attack and defense but no range.
C11_ZeroBonusIffNoAptitude ==
    /\ \A isModule \in BOOLEAN, type \in 1..4, biome \in 0..11, rarity \in 1..5, x \in Axes :
          /\ ComputedBonus(isModule, type, biome, rarity, x) >= 0
          /\ (ComputedBonus(isModule, type, biome, rarity, x) = 0)
                <=> (RoleBonus(isModule, type, x) = 0)
    /\ \A a \in Crafted : \A x \in Axes :
          (StoredBonus(a, x) = 0) <=> (RoleBonus(a \in Modules, TypeOfCrafted(a), x) = 0)
    /\ \A biome \in 1..3 :
          /\ calculateModuleBonus(biome, COMMON, 1, "speed") = 9
          /\ \A b \in 0..11, r \in 1..5 : calculateModuleBonus(b, r, 1, "attack") = 0
    /\ \A b \in 0..11, r \in 1..5 :
          /\ calculateSpaceshipBonus(b, r, 1, "speed") > 0
          /\ calculateSpaceshipBonus(b, r, 1, "range") > 0
          /\ calculateSpaceshipBonus(b, r, 1, "attack") = 0
          /\ calculateSpaceshipBonus(b, r, 3, "attack") > 0
          /\ calculateSpaceshipBonus(b, r, 3, "defense") > 0
          /\ calculateSpaceshipBonus(b, r, 3, "range") = 0

\* a Scout and an Engine module crafted: speed and range stored, no attack
C11_Witness ==
    /\ \E c \in Carriers :
          /\ craftedSpaceship[c].spaceshipType = 1
          /\ spaceshipBonus[c]["speed"] > 0 /\ spaceshipBonus[c]["range"] > 0
          /\ spaceshipBonus[c]["attack"] = 0
    /\ \E m \in Modules :
          /\ craftedModules[m].moduleType = 1
          /\ moduleBonus[m]["speed"] > 0 /\ moduleBonus[m]["attack"] = 0
          /\ moduleBonus[m]["defense"] = 0

\* C12: an install of a module that is installed on a different carrier is rejected
\* with ModuleAlreadyInstalled.
C12_OtherCarrierRejected ==
    \A c \in Carriers : \A m \in Modules :
        (/\ artifactOwner[c] = 1
         /\ moduleInstalled[m].installed
         /\ moduleInstalled[m].artifactId \in Carriers \ {c})
        => InstallOutcome(Ship, 1, "user1", c, m) = "ModuleAlreadyInstalled"

\* C13: an install of a module onto the carrier it is already installed on is accepted
\* and leaves bonuses, slots, installed records and the planet's storage as they were.
C13_ReinstallIsNoOp ==
    \A c \in Carriers : \A m \in Modules :
        (/\ artifactOwner[c] = 1
         /\ moduleInstalled[m].installed
         /\ moduleInstalled[m].artifactId = c)
        => /\ InstallOutcome(Ship, 1, "user1", c, m) = "ok"
           /\ executeInstallModule(Ship, c, m, 1) = Ship

C14_NotInstalledOutcome ==
    \A c \in artifactStorage[1] : \A m \in ArtifactIds :
        moduleInstalled[m].artifactId # c
            => UninstallOutcome(Ship, 1, "user1", c, m) = "ModuleNotInstalled"

C14_SecondUninstallRejected ==
    (last.op = "uninstallModule" /\ last.result = "ok")
        => UninstallOutcome(Ship, 1, "user1", last.spaceshipId, last.moduleId)
               = "ModuleNotInstalled"

C14_RejectionChangesNothing ==
    [][last'.result = "ModuleNotInstalled" => UNCHANGED world]_vars

\* C14: an uninstall by the owner from a carrier held on the planet, of a module not
\* recorded as installed on that carrier (never installed, already uninstalled, or
\* installed on another carrier), is rejected with ModuleNotInstalled and changes no
\* state; a second uninstall right after a successful one is rejected.
C14_UninstallOfAbsentModuleRejected ==
    [](C14_NotInstalledOutcome /\ C14_SecondUninstallRejected) /\ C14_RejectionChangesNothing

\* an uninstall refused while the module sits on another carrier of the same planet
C14_Witness ==
    /\ last.op = "uninstallModule" /\ last.result = "ModuleNotInstalled"
    /\ \E m \in Modules : \E c \in Carriers \cap artifactStorage[1] :
          /\ moduleInstalled[m].installed
          /\ moduleInstalled[m].artifactId \in (Carriers \cap artifactStorage[1]) \ {c}

C15_FullStorageOutcome ==
    \A c \in ArtifactIds : \A m \in ArtifactIds :
        (/\ validateUninstallModule(Ship, 1, "user1", c, m) = "ok"
         /\ Cardinality(artifactStorage[1]) >= ArtifactSlots)
        => UninstallOutcome(Ship, 1, "user1", c, m) = "ArtifactStorageFull"

C15_FullStorageChangesNothing ==
    [][(last'.op = "uninstallModule" /\ last'.result = "ArtifactStorageFull")
          => UNCHANGED <<spaceshipBonus, spaceshipSlot, moduleInstalled, artifactStorage,
                         artifactOwner>>]_vars

\* C15: an uninstall while the planet has no free artifact slot is rejected with
\* ArtifactStorageFull, and the carrier's bonus, its slot records and the module's
\* installed record are afterwards what they were before the call.
C15_UninstallIntoFullStorageRejected ==
    []C15_FullStorageOutcome /\ C15_FullStorageChangesNothing

\* an uninstall refused for lack of room: the module is still installed
C15_Witness ==
    /\ last.op = "uninstallModule" /\ last.result = "ArtifactStorageFull"
    /\ Cardinality(artifactStorage[1]) = ArtifactSlots
    /\ \E m \in Modules : moduleInstalled[m].installed

HeldBy(m) == {p \in Planets : m \in artifactStorage[p]}

C17_ClampNeverExercised ==
    \A c \in ArtifactIds : \A m \in ArtifactIds :
        UninstallOutcome(Ship, 1, "user1", c, m) = "ok"
            => \A x \in Axes : spaceshipBonus[c][x] >= moduleBonus[m][x]

\* a module with a defense bonus taken off a carrier that has none of its own
C17_Witness ==
    /\ last.op = "uninstallModule" /\ last.result = "ok"
    /\ moduleBonus[last.moduleId]["defense"] > 0
    /\ OwnBonus(last.spaceshipId, "defense") = 0
    /\ spaceshipBonus[last.spaceshipId]["defense"] = 0

\* C18: on every foundry each multiplier tier (count 0, 1 or 2) is charged by at most one
\* successful craft: a successful craft moves the count from its tier to the next, and
\* no step ever lowers the count or leaves it in place while creating an artifact.
C18_OneCraftPerTier ==
    [][\A f \in Planets :
          /\ craftingCount'[f].count >= craftingCount[f].count
          /\ (last'.op \in CraftOps /\ last'.result = "ok" /\ last'.planet = f
              /\ counter' # counter)
                => /\ craftingCount'[f].count = craftingCount[f].count + 1
                   /\ craftingCount[f].count \in 0..2
                   /\ \A i \in 1..Len(last'.materials) :
                         \E j \in 1..2 :
                            LET e == Recipe(last'.op = "craftModule", last'.type)[j]
                            IN  /\ e.kind = last'.materials[i]
                                /\ InWindow(last'.amounts[i], e.amount, craftingCount[f].count)
          /\ counter' # counter => \E g \in Planets :
                craftingCount'[g].count = craftingCount[g].count + 1]_vars

\* the third tier charged, after a carrier and a module took the first two
C18_Witness ==
    /\ last.op \in CraftOps /\ last.result = "ok" /\ last.planet = 1
    /\ craftingCount[1].count = 3 /\ counter = 3
    /\ \A i \in 1..Len(last.materials) : \E j \in 1..2 :
          LET e == Recipe(last.op = "craftModule", last.type)[j]
          IN  e.kind = last.materials[i] /\ InWindow(last.amounts[i], e.amount, 2)
    /\ Carriers # {} /\ Modules # {}

\* a craft call for a recipe with amounts the validator accepts at the foundry's count
AcceptableCall(pr) ==
    CraftCall(pr[1], 1, "user1", pr[2],
              [materials |-> KindsOf(Recipe(pr[1], pr[2])),
               amounts |-> ScaledOf(Recipe(pr[1], pr[2]),
                                    getCraftingMultiplier(craftingCount[1].count), <<0, 0>>)])
Affordable(c) ==
    \A i \in 1..Len(c.materials) :
        material[c.foundry][c.materials[i]] >= c.amounts[i] * MATERIAL_SCALE

BaseCall(pr) ==
    CraftCall(pr[1], 1, "user1", pr[2],
              [materials |-> KindsOf(Recipe(pr[1], pr[2])),
               amounts |-> BaseAmounts(Recipe(pr[1], pr[2]))])
LimitNotReached == craftingCount[1].count < 1 + branchLevel[1]

C20_BaseAmountsOnlyAtFirstTier ==
    \A pr \in CraftPairs :
        LimitNotReached =>
            ((OutcomeOf(BaseCall(pr)) = "InvalidMaterialAmount")
                <=> craftingCount[1].count \in {1, 2})

C20_ChargedWhatWasSent ==
    [][(last'.op \in CraftOps /\ last'.result = "ok" /\ counter' # counter) =>
          LET f == last'.planet
              recipe == Recipe(last'.op = "craftModule", last'.type)
              c == craftingCount[f].count
              spent(k) == material[f][k] - material'[f][k]
          IN  /\ Len(last'.materials) = Len(recipe)
              /\ \A i \in 1..Len(recipe) : \E j \in 1..Len(recipe) :
                    /\ last'.materials[i] = recipe[j].kind
                    /\ spent(recipe[j].kind) = last'.amounts[i] * MATERIAL_SCALE
                    /\ (recipe[j].amount = 100 /\ last'.amounts[i] = FloorAmount(100, c))
                          => spent(recipe[j].kind)
                                = (CASE c = 0 -> 100 [] c = 1 -> 150 [] OTHER -> 225)
                                     * MATERIAL_SCALE
              /\ \A k \in Kinds : (\A j \in 1..Len(recipe) : recipe[j].kind # k)
                                       => spent(k) = 0]_vars

SliceOf(seed) == (seed \div 4096) % 4096
SlicesOfClaim == {0, 1, 63, 64, 65, 255, 256, 257, 4095}
SeedsOfClaim ==
    {hi * 16777216 + i * 4096 + lo : hi \in {0, 1, 127}, i \in SlicesOfClaim, lo \in {0, 1, 4095}}
LevelsOfClaim == 0..9
BoostOfClaim(seed) ==
    IF SliceOf(seed) * 4096 < 262144 THEN 2
    ELSE IF SliceOf(seed) * 4096 < 1048576 THEN 1 ELSE 0
TierOfClaim(e) ==
    CASE e <= 1 -> COMMON [] e \in 2..3 -> RARE [] e \in 4..5 -> EPIC
      [] e \in 6..7 -> LEGENDARY [] OTHER -> MYTHIC

\* C21: the rarity of a craft is tier(level + boost(seed)), boost being +2 when the seed's
\* slice (seed & 0xfff000) is below 0x40000, +1 when it is otherwise below 0x100000 and 0
\* otherwise; module and carrier crafting compute the same function, bits outside the
\* slice do not matter, and every crafted item stores a rarity this function gives for
\* the level of its foundry.
C21_RarityIsTierOfBoostedLevel ==
    /\ \A level \in LevelsOfClaim, seed \in SeedsOfClaim :
          /\ calculateModuleRarity(level, seed) = TierOfClaim(level + BoostOfClaim(seed))
          /\ calculateSpaceshipRarity(level, seed) = calculateModuleRarity(level, seed)
          /\ calculateModuleRarity(level, seed)
                = calculateModuleRarity(level, SliceOf(seed) * 4096)
    /\ \A a \in Crafted :
          /\ artifactOwner[a] \in Planets
          /\ CraftedRecord(a).rarity = artifactTable[a].rarity
          /\ \E seed \in {SeedBoost2, SeedBoost1, SeedNoBoost} :
                CraftedRecord(a).rarity
                    = TierOfClaim(planetLevel(artifactOwner[a]) + BoostOfClaim(seed))

\* a level 4 foundry made a Legendary carrier (+2) while a level 7 foundry made a Mythic
\* module (boosted)
C21_Witness ==
    /\ \E c \in Carriers : artifactOwner[c] = 1 /\ craftedSpaceship[c].rarity = LEGENDARY
    /\ \E m \in Modules : artifactOwner[m] = 2 /\ craftedModules[m].rarity = MYTHIC

\* slices that raise the level by two: level 2 becomes Epic only with +2
BoostedByTwo == {i \in 0..4095 : calculateModuleRarity(2, i * 4096) = EPIC}
\* slices that raise the level at all: level 3 becomes Epic with +1 or +2
BoostedAtAll == {i \in 0..4095 : calculateModuleRarity(3, i * 4096) = EPIC}
BoostedByOne == BoostedAtAll \ BoostedByTwo

\* C22: of the 4096 values of the seed slice exactly 64 give the +2 boost and exactly 256
\* give the +1 boost; every other value gives no boost.
C22_BoostCounts ==
    /\ Cardinality(BoostedByTwo) = 64
    /\ Cardinality(BoostedByOne) = 256
    /\ \A i \in (0..4095) \ (BoostedByTwo \cup BoostedByOne) :
          \A level \in LevelsOfClaim :
              calculateModuleRarity(level, i * 4096) = rarityOfLevel(level)
    /\ \A a \in Crafted : \E b \in 0..2 :
          CraftedRecord(a).rarity = rarityOfLevel(planetLevel(artifactOwner[a]) + b)

\* ------------------------------------------------------------- ownership claims
OwnedOps == {"craftSpaceship", "craftModule", "installModule", "uninstallModule",
             "upgradeFoundry"}
Strangers(p) == {u \in Users : u # planetOwner(p)}
\* material lists a stranger may send: none, and the client's list for the role
StrangerShapes(p, isModule, type) ==
    {[materials |-> <<>>, amounts |-> <<>>]}
        \cup (IF type \in 1..4
              THEN {[materials |-> KindsOf(Recipe(isModule, type)),
                     amounts |-> ClientAmounts(Recipe(isModule, type),
                                     getCraftingMultiplier(craftingCount[p].count))]}
              ELSE {})

C23_StrangerOutcome ==
    \A p \in Planets : \A u \in Strangers(p) :
        /\ \A isModule \in BOOLEAN, type \in 0..5 :
              \A sh \in StrangerShapes(p, isModule, type) :
                  CraftOutcome(isModule, p, u, type, sh.materials, sh.amounts) = "NotPlanetOwner"
        /\ \A c \in ArtifactIds, m \in ArtifactIds :
              /\ InstallOutcome(Ship, p, u, c, m) = "NotPlanetOwner"
              /\ UninstallOutcome(Ship, p, u, c, m) = "NotPlanetOwner"
        /\ \A short \in {0, 1} :
              UpgradeOutcome(p, u, EntryFee + upgradeTotalFee(p, branchLevel[p]) - short)
                  = "NotPlanetOwner"

C23_StrangerCallsRecorded ==
    last.op \in OwnedOps =>
        ((last.sender # planetOwner(last.planet)) <=> (last.result = "NotPlanetOwner"))

C23_RejectionChangesNothing ==
    [][last'.result = "NotPlanetOwner" => UNCHANGED world]_vars

\* C23: a craft, install, uninstall or upgrade called by someone who is not the owner of
\* the named planet is rejected with NotPlanetOwner, whatever its other arguments, and
\* leaves every balance, count, level, artifact, carrier and module record unchanged.
C23_StrangerRejected ==
    [](C23_StrangerOutcome /\ C23_StrangerCallsRecorded) /\ C23_RejectionChangesNothing

\* a stranger refused an uninstall that the owner could have made
C23_Witness ==
    /\ last.op = "uninstallModule" /\ last.result = "NotPlanetOwner"
    /\ last.sender = "user2"
    /\ \E c \in ArtifactIds, m \in ArtifactIds :
          UninstallOutcome(Ship, 1, planetOwner(1), c, m) = "ok"

\* ----------------------------------------------------------- eligibility claims
\* what a planet that cannot craft answers to its owner
Ineligible(p) ==
    IF planetType(p) # "FOUNDRY" THEN "InvalidPlanetType"
    ELSE IF planetLevel(p) < 4 THEN "PlanetLevelTooLow" ELSE "none"
\* requests of every kind: well formed, malformed, wrong amounts, wrong role
AnyShapes ==
    UNION {OffsetShapes(Recipe(pr[1], pr[2]), 100) : pr \in CraftPairs}
        \cup ListShapes(Recipe(TRUE, 1), Recipe(TRUE, 2), 100)

C24_IneligibleOutcome ==
    \A p \in Planets : Ineligible(p) # "none" =>
        /\ \A isModule \in BOOLEAN, type \in 0..5, sh \in AnyShapes :
              /\ CraftOutcome(isModule, p, planetOwner(p), type, sh.materials, sh.amounts)
                    = Ineligible(p)
              /\ \A count \in {0, 1, 3}, upgradeLevel \in {0, 2} :
                    validateCrafting(p, planetOwner(p), isModule, type, sh.materials,
                                     sh.amounts, count, upgradeLevel, material[p])
                        = Ineligible(p)
        /\ craftingCount[p].count = 0
        /\ artifactStorage[p] = {}

C24_NoItemOfLowStation ==
    \A a \in Crafted :
        /\ planetType(artifactOwner[a]) = "FOUNDRY"
        /\ planetLevel(artifactOwner[a]) >= 4

C24_RejectionChangesNothing ==
    [][last'.result \in {"InvalidPlanetType", "PlanetLevelTooLow"} => UNCHANGED world]_vars

\* C24: a craft by the owner on a planet that is not a foundry is rejected with
\* InvalidPlanetType and on a foundry of level below 4 with PlanetLevelTooLow, whatever
\* the role, the materials, the count and the upgrade level (so before the limit and the
\* recipe are looked at) and with no state change; no crafted item comes from such a planet.
C24_IneligibleStationRejected ==
    [](C24_IneligibleOutcome /\ C24_NoItemOfLowStation) /\ C24_RejectionChangesNothing

\* a level 3 foundry refused a craft after an eligible foundry had crafted
C24_Witness ==
    /\ last.op = "craftModule" /\ last.result = "PlanetLevelTooLow" /\ last.planet = 4
    /\ planetType(4) = "FOUNDRY" /\ planetLevel(4) < 4
    /\ Crafted # {}

\* ---------------------------------------------------------------- recipe claims
Roles == {<<isModule, type>> : isModule \in BOOLEAN, type \in 1..4}
\* another role whose recipe shares no kind with the role's
OtherRole(r) == <<r[1], IF r[2] = 4 THEN 1 ELSE r[2] + 1>>
ExactAmounts(r) ==
    ScaledOf(Recipe(r[1], r[2]), getCraftingMultiplier(craftingCount[1].count), <<0, 0>>)
OwnerCraft(r, materials, amounts) ==
    CraftOutcome(r[1], 1, planetOwner(1), r[2], materials, amounts)

\* C25: a craft succeeds only with exactly the kinds of the role's recipe; a request with a
\* kind missing is rejected with MissingRequiredMaterials, one with the same kind twice
\* with DuplicateResourceEntry, and one with an extra kind, a foreign kind or the kinds of
\* another role's recipe is rejected as well.
C25_WrongKindsRejected ==
    \A r \in Roles :
        LET ks == KindsOf(Recipe(r[1], r[2]))
            os == KindsOf(Recipe(OtherRole(r)[1], OtherRole(r)[2]))
            ex == ExactAmounts(r)
        IN  craftingCount[1].count < 1 + branchLevel[1] =>
              /\ OwnerCraft(r, <<ks[1]>>, <<ex[1]>>) = "MissingRequiredMaterials"
              /\ OwnerCraft(r, <<ks[2]>>, <<ex[2]>>) = "MissingRequiredMaterials"
              /\ OwnerCraft(r, <<ks[1], ks[1]>>, ex) = "DuplicateResourceEntry"
              /\ OwnerCraft(r, <<ks[2], ks[2]>>, ex) = "DuplicateResourceEntry"
              /\ OwnerCraft(r, <<ks[1], ks[2], os[1]>>, <<ex[1], ex[2], 1>>) # "ok"
              /\ OwnerCraft(r, <<ks[1], os[1]>>, ex) # "ok"
              /\ OwnerCraft(r, os, ExactAmounts(OtherRole(r))) # "ok"
              /\ OwnerCraft(r, os, ex) # "ok"

\* --------------------------------------------------------------- upgrade claims
C26_TierInRange ==
    \A p \in Planets :
        /\ branchLevel[p] \in {0, 1, 2}
        /\ maxCrafts(branchLevel[p]) <= 3
        /\ craftingCount[p].count <= 3
        /\ (branchLevel[p] = 2 /\ planetType(p) = "FOUNDRY" /\ planetLevel(p) >= 4)
              => \A msgValue \in {0, EntryFee + upgradeTotalFee(p, 1), 2000000} :
                    UpgradeOutcome(p, planetOwner(p), msgValue) = "FoundryAtMaxUpgradeLevel"

C26_TierSteps ==
    [][/\ \A p \in Planets : branchLevel'[p] >= branchLevel[p]
       /\ branchLevel' # branchLevel
             => /\ last'.op = "upgradeFoundry" /\ last'.result = "ok"
                /\ branchLevel' = [branchLevel EXCEPT ![last'.planet] = @ + 1]
       /\ (last'.op = "upgradeFoundry" /\ last'.result = "ok" /\ now' = now)
             => branchLevel'[last'.planet] = branchLevel[last'.planet] + 1
       /\ last'.result = "FoundryAtMaxUpgradeLevel" => UNCHANGED world]_vars

\* C26: a foundry's upgrade level is always 0, 1 or 2: a successful upgradeFoundry raises
\* it by exactly one, nothing lowers it, and an upgrade at level 2 is rejected with
\* FoundryAtMaxUpgradeLevel whatever is paid and changes nothing, so the crafting limit
\* 1 + level never exceeds 3.
C26_UpgradeTierBounded == []C26_TierInRange /\ C26_TierSteps

\* a third upgrade refused on a foundry upgraded twice
C26_Witness ==
    /\ last.op = "upgradeFoundry" /\ last.result = "FoundryAtMaxUpgradeLevel"
    /\ last.planet = 1 /\ branchLevel[1] = 2

\* ------------------------------------------------------------ multiplier claims
C27_ReportedTable ==
    \A f \in Planets :
        /\ craftingCount[f].count = 0 => getCraftingMMultiplier(f) = 100
        /\ craftingCount[f].count = 1 => getCraftingMMultiplier(f) = 150
        /\ craftingCount[f].count = 2 => getCraftingMMultiplier(f) = 225

C27_ReportedNeverDecreases ==
    [][\A f \in Planets : getCraftingMMultiplier(f)' >= getCraftingMMultiplier(f)]_vars

\* C27: the multiplier a foundry reports is 100 after 0 crafts, 150 after 1 and 225 after
\* 2, and over any sequence of crafts and upgrades the reported multiplier never decreases.
C27_MultiplierEscalates == []C27_ReportedTable /\ C27_ReportedNeverDecreases

\* ------------------------------------------------------------------ frame claims
PlaceOf(a) == <<artifactOwner[a], {p \in Planets : a \in artifactStorage[p]}, moduleInstalled[a]>>
CarrierState(c) == <<spaceshipSlot[c], spaceshipBonus[c]>>
ItemRecord(a) == <<artifactTable[a], craftedSpaceship[a], craftedModules[a], moduleBonus[a]>>

\* C28: a craft (of a module or a carrier) and an upgradeFoundry, accepted or not, leave
\* the place of every existing module and the place, slot records and stored bonuses of
\* every existing carrier unchanged; slot records, stored bonuses and installed records
\* change only in a successful install or uninstall; and no step removes a crafted item:
\* its records stay and it stays in a storage or installed on a carrier.
C28_OnlyInstallAndUninstallMoveModules ==
    [][/\ last'.op \in CraftOps \cup {"upgradeFoundry"}
             => /\ \A m \in Modules : PlaceOf(m)' = PlaceOf(m)
                /\ \A c \in Carriers : PlaceOf(c)' = PlaceOf(c) /\ CarrierState(c)' = CarrierState(c)
       /\ (\/ \E c \in Carriers : CarrierState(c)' # CarrierState(c)
           \/ \E m \in Modules : moduleInstalled'[m] # moduleInstalled[m])
             => /\ last'.op \in {"installModule", "uninstallModule"}
                /\ last'.result = "ok"
       /\ \A a \in Crafted :
             /\ a \in Crafted'
             /\ ItemRecord(a)' = ItemRecord(a)
             /\ \/ \E p \in Planets : a \in artifactStorage'[p]
                \/ moduleInstalled'[a].installed /\ moduleInstalled'[a].artifactId \in Carriers']_vars

\* a craft made while a module sits on a carrier
C28_Witness ==
    /\ last.op \in CraftOps /\ last.result = "ok"
    /\ \E m \in Modules : moduleInstalled[m].installed /\ m < counter
    /\ \E c \in Carriers : \E x \in Axes : spaceshipBonus[c][x] > OwnBonus(c, x)

\* ----------------------------------------------------------- resubmission claims
Rejections == {"FoundryCraftingLimitReached", "InvalidMaterialAmount"}

\* the request recorded last, sent again as it was
C29_SameRequestAgain ==
    (last.op \in CraftOps /\ last.result = "ok")
        => CraftOutcome(last.op = "craftModule", last.planet, last.sender, last.type,
                        last.materials, last.amounts) \in Rejections

\* a request that was acceptable at the count before the last craft, sent at a later time
C29_EarlierRequestLater ==
    \A r \in Roles : \A c \in 0..2 : \A d \in {<<0, 0>>, <<1, 1>>, <<1, 0>>} :
        craftingCount[1].count > c
            => OwnerCraft(r, KindsOf(Recipe(r[1], r[2])),
                          ScaledOf(Recipe(r[1], r[2]), MultiplierPercent(c), d)) \in Rejections

C29_RejectedCraftChangesNothing ==
    [][(last'.op \in CraftOps /\ last'.result # "ok") => UNCHANGED world]_vars

SharedPair == {HULL_SLOT, SHIELD_SLOT}
SlotTypeOfModule(m) == getSlotTypeForModuleType(craftedModules[m].moduleType)

\* C30: installing a Shield on a carrier whose shared slot index holds a Hull (or a Hull
\* where a Shield is held) is accepted; afterwards both modules are recorded as installed
\* on the carrier, the stored bonus contains the bonuses of both, and the list of
\* installed modules shows both, each with its own category.
C30_SharedSlotHoldsBoth ==
    \A c \in Carriers, m \in Modules :
        LET slot == spaceshipSlot[c][getSlotIndexForSlotType(HULL_SLOT)]
            h == slot.moduleId
            after == executeInstallModule(Ship, c, m, 1)
        IN  (/\ artifactOwner[c] = 1 /\ artifactOwner[m] = 1
             /\ h > 0
             /\ {slot.moduleSlotType, SlotTypeOfModule(m)} = SharedPair)
            => /\ InstallOutcome(Ship, 1, planetOwner(1), c, m) = "ok"
               /\ after.moduleInstalled[m]
                     = [artifactId |-> c, moduleSlotType |-> SlotTypeOfModule(m), installed |-> TRUE]
               /\ after.moduleInstalled[h]
                     = [artifactId |-> c, moduleSlotType |-> slot.moduleSlotType, installed |-> TRUE]
               /\ \A x \in Axes :
                     /\ after.spaceshipBonus[c][x] = spaceshipBonus[c][x] + moduleBonus[m][x]
                     /\ after.spaceshipBonus[c][x]
                           >= OwnBonus(c, x) + moduleBonus[h][x] + moduleBonus[m][x]
               /\ {[moduleId |-> h, moduleType |-> craftedModules[h].moduleType,
                    moduleSlotType |-> slot.moduleSlotType],
                   [moduleId |-> m, moduleType |-> craftedModules[m].moduleType,
                    moduleSlotType |-> SlotTypeOfModule(m)]}
                     \subseteq useInstalledModules(after, c)
               /\ slot.moduleSlotType # SlotTypeOfModule(m)

\* a Shield just installed on a carrier that already carried a Hull: the list shows both
C30_Witness ==
    /\ last.op = "installModule" /\ last.result = "ok"
    /\ craftedModules[last.moduleId].moduleType = 4
    /\ \E h \in Modules :
          /\ craftedModules[h].moduleType = 3
          /\ {h, last.moduleId} \subseteq {e.moduleId : e \in useInstalledModules(Ship, last.spaceshipId)}
    /\ \E x \in Axes : moduleBonus[last.moduleId][x] > 0

\* ------------------------------------------------------------ slot record claims
SlotOf(c, k) == spaceshipSlot[c][getSlotIndexForSlotType(k)]

\* every module id held in a slot record of a carrier is installed on that carrier
SlotIdsAreInstalled ==
    \A c \in Carriers : \A i \in SlotIndexes :
        spaceshipSlot[c][i].moduleId > 0 =>
            /\ moduleInstalled[spaceshipSlot[c][i].moduleId].installed
            /\ moduleInstalled[spaceshipSlot[c][i].moduleId].artifactId = c

\* C31: the two install records agree: for every module recorded as installed on a carrier
\* with slot category k, the carrier's slot record at the index of k holds that module's
\* id and category k; and every nonzero module id in a slot record of a carrier is a
\* module recorded as installed on that carrier.
C31_InstallRecordsAgree ==
    /\ \A m \in Modules :
          moduleInstalled[m].installed =>
              SlotOf(moduleInstalled[m].artifactId, moduleInstalled[m].moduleSlotType)
                  = [moduleSlotType |-> moduleInstalled[m].moduleSlotType, moduleId |-> m]
    /\ SlotIdsAreInstalled

\* C32: a successful uninstall of module M from carrier C leaves, for every other module N
\* installed on C, the slot record of C that references N and the installed record of N
\* as they were.
C32_UninstallClearsOnlyOwnSlot ==
    \A c \in Carriers, m \in Modules :
        UninstallOutcome(Ship, 1, planetOwner(1), c, m) = "ok" =>
            LET after == executeUninstallModule(Ship, c, m, 1)
            IN  \A n \in InstalledOn(c) \ {m} :
                    /\ after.moduleInstalled[n] = moduleInstalled[n]
                    /\ \A i \in SlotIndexes :
                          spaceshipSlot[c][i].moduleId = n
                              => after.spaceshipSlot[c][i] = spaceshipSlot[c][i]

\* ----------------------------------------------------------- stored bonus claims
\* what a carrier receives on an axis when it is crafted, from its craft record
BonusOfRecord(rec, x) ==
    IF getSpaceshipRoleBonus(rec.spaceshipType, x) = 0 THEN 0
    ELSE Numerator(FALSE, rec.spaceshipType, rec.biome, rec.rarity, x) \div 100
CraftedWith(c, x) == BonusOfRecord(craftedSpaceship[c], x)
ListedOn(c) == {e.moduleId : e \in useInstalledModules(Ship, c)}

C33_StoredBonusOfCarriers ==
    \A c \in Carriers : \A x \in Axes :
        spaceshipBonus[c][x] - SumBonus(ListedOn(c), x) = CraftedWith(c, x)

C33_CraftGivesOwnBonus ==
    [][(last'.op = "craftSpaceship" /\ last'.result = "ok" /\ counter' # counter)
          => \A x \in Axes : spaceshipBonus'[counter'][x] = BonusOfRecord(craftedSpaceship'[counter'], x)]_vars

\* C33: each carrier's stored bonus equals, on each axis, the bonus the carrier received
\* when it was crafted plus the sum of the bonuses of the modules currently recorded as
\* installed on it; a craft stores exactly the carrier's own bonus.
C33_StoredBonusIsOwnPlusInstalled == []C33_StoredBonusOfCarriers /\ C33_CraftGivesOwnBonus

\* a carrier holding a Hull and a Shield, of which its shared slot record shows one
C33_Witness ==
    \E c \in Carriers :
        /\ Cardinality(ListedOn(c)) = 2
        /\ \A m \in ListedOn(c) : craftedModules[m].moduleType \in {3, 4}
        /\ spaceshipBonus[c]["defense"] > CraftedWith(c, "defense")
        /\ CraftedWith(c, "speed") > 0

\* --------------------------------------------------------------- liveness claims
\* C34: no module is stuck on a carrier: for every module recorded as installed on a
\* carrier, the carrier is held by a planet, and whenever that planet has a free artifact
\* slot an uninstall by its owner is accepted, puts the module back into the planet's
\* storage and clears its installed record.
C34_InstalledModuleCanComeOff ==
    \A m \in Modules :
        moduleInstalled[m].installed =>
            LET c == moduleInstalled[m].artifactId
            IN  /\ HeldBy(c) # {}
                /\ \A p \in HeldBy(c) :
                      hasArtifactSlot(artifactStorage[p]) =>
                          /\ UninstallOutcome(Ship, p, planetOwner(p), c, m) = "ok"
                          /\ LET after == executeUninstallModule(Ship, c, m, p)
                             IN  /\ m \in after.artifactStorage[p]
                                 /\ after.artifactOwner[m] = p
                                 /\ after.moduleInstalled[m] = NotInstalled
                                 /\ c \in after.artifactStorage[p]

\* a module that can still come off although the carrier's slot record no longer shows it
C34_Witness ==
    \E m \in Modules :
        /\ moduleInstalled[m].installed
        /\ \A i \in SlotIndexes : spaceshipSlot[moduleInstalled[m].artifactId][i].moduleId # m
        /\ hasArtifactSlot(artifactStorage[1])
        /\ UninstallOutcome(Ship, 1, planetOwner(1), moduleInstalled[m].artifactId, m) = "ok"

\* ---------------------------------------------------- upgrade and craft claims
PricedFor(r, c) == ScaledOf(Recipe(r[1], r[2]), MultiplierPercent(c), <<0, 0>>)
HasFor(f, r, c) ==
    \A i \in 1..2 : material[f][Recipe(r[1], r[2])[i].kind] >= (PricedFor(r, c)[i] + 1) * MATERIAL_SCALE

C35_UpgradeFrame ==
    [][branchLevel' # branchLevel
          => /\ craftingCount' = craftingCount
             /\ material' = material
             /\ UNCHANGED <<now, counter, artifactTable, craftedSpaceship, craftedModules,
                            moduleBonus, shipVars>>]_vars

\* at the limit: one upgrade lets one request priced for the present count through, and
\* the request after it meets the limit again
C35_OneMoreCraft ==
    \A r \in Roles :
        LET c == craftingCount[1].count
            lv == branchLevel[1]
            ks == KindsOf(Recipe(r[1], r[2]))
        IN  (c = 1 + lv /\ lv < 2) =>
              /\ OwnerCraft(r, ks, PricedFor(r, c)) = "FoundryCraftingLimitReached"
              /\ UpgradeOutcome(1, planetOwner(1), EntryFee + upgradeTotalFee(1, lv)) = "ok"
              /\ HasFor(1, r, c)
                    => validateCrafting(1, planetOwner(1), r[1], r[2], ks, PricedFor(r, c),
                                        c, lv + 1, material[1]) = "ok"
              /\ \A c0 \in 0..2 : c0 # c =>
                    validateCrafting(1, planetOwner(1), r[1], r[2], ks, PricedFor(r, c0),
                                     c, lv + 1, material[1]) = "InvalidMaterialAmount"
              /\ \A c1 \in 0..3 :
                    validateCrafting(1, planetOwner(1), r[1], r[2], ks, PricedFor(r, c1),
                                     c + 1, lv + 1, material[1]) = "FoundryCraftingLimitReached"

C35_CraftAfterUpgradePriced ==
    [][(last'.op \in CraftOps /\ last'.result = "ok" /\ counter' # counter)
          => /\ craftingCount[last'.planet].count < 1 + branchLevel[last'.planet]
             /\ \A i \in 1..Len(last'.materials) :
                   \E e \in {Recipe(last'.op = "craftModule", last'.type)[j] : j \in 1..2} :
                       /\ e.kind = last'.materials[i]
                       /\ last'.amounts[i] - FloorAmount(e.amount, craftingCount[last'.planet].count)
                             \in {0, 1}]_vars

\* C35: upgradeFoundry changes the upgrade level and nothing else: the craft count, the
\* last craft time and every balance stay; on a foundry at its limit one upgrade lets
\* exactly one more craft through, and that craft is priced with the multiplier of the
\* unchanged count (the amounts it is charged lie within one unit above
\* floor(base * multiplier / 100)).
C35_UpgradeUnlocksOneCraft ==
    []C35_OneMoreCraft /\ C35_UpgradeFrame /\ C35_CraftAfterUpgradePriced

\* the craft an upgrade let through, priced at 150, leaving the foundry at its limit again
C35_Witness ==
    /\ last.op \in CraftOps /\ last.result = "ok" /\ last.planet = 1
    /\ branchLevel[1] = 1 /\ craftingCount[1].count = 2
    /\ \E r \in Roles : last.amounts = PricedFor(r, 1) /\ last.type = r[2]

\* ------------------------------------------------------ the crafting pane
\* the multiplier the pane derives from the craft count, in percent (1, 1.5, 2.25)
actualCraftingMultiplier(count) ==
    IF count = 1 THEN 150
    ELSE IF count = 2 THEN 225
    ELSE 100

\* the pane's own recipe table: Math.ceil(base * actualCraftingMultiplier)
moduleConfigs(type, multiplier) ==
    CASE type = 1 -> <<[materialType |-> "WINDSTEEL", amount |-> CeilDiv(80 * multiplier, 100)],
                       [materialType |-> "AURORIUM", amount |-> CeilDiv(40 * multiplier, 100)]>>
      [] type = 2 -> <<[materialType |-> "PYROSTEEL", amount |-> CeilDiv(120 * multiplier, 100)],
                       [materialType |-> "SCRAPIUM", amount |-> CeilDiv(80 * multiplier, 100)]>>
      [] type = 3 -> <<[materialType |-> "BLACKALLOY", amount |-> CeilDiv(160 * multiplier, 100)],
                       [materialType |-> "CORRUPTED_CRYSTAL", amount |-> CeilDiv(80 * multiplier, 100)]>>
      [] type = 4 -> <<[materialType |-> "LIVING_WOOD", amount |-> CeilDiv(160 * multiplier, 100)],
                       [materialType |-> "CRYOSTONE", amount |-> CeilDiv(120 * multiplier, 100)]>>

\* the request handleCraftModule builds from the selected config
handleCraftModule(type, count) ==
    LET config == moduleConfigs(type, actualCraftingMultiplier(count))
    IN  [materials |-> [i \in 1..Len(config) |-> config[i].materialType],
         amounts |-> [i \in 1..Len(config) |-> config[i].amount]]

AmountErrors == {"InvalidMaterialAmount", "MissingRequiredMaterials", "DuplicateResourceEntry"}

\* C36: for every module recipe entry and every craft count 0, 1, 2 the amount the pane
\* computes lies in the contract's window for that count, so the request the pane builds
\* is never rejected for its kinds or amounts when pane and contract see the same count.
C36_ClientRequestInWindow ==
    /\ \A type \in 1..4, c \in 0..2 :
          LET req == handleCraftModule(type, c)
          IN  /\ \A i \in 1..2 :
                    /\ req.materials[i] = ModuleRecipe(type)[i].kind
                    /\ ~AmountOutside(req.amounts[i],
                            expectedAmountWithMultiplier(ModuleRecipe(type)[i].amount,
                                                         getCraftingMultiplier(c)))
              /\ validateCrafting(1, planetOwner(1), TRUE, type, req.materials, req.amounts,
                                  c, 2, material[1]) \notin AmountErrors
    /\ \A f \in {1, 2}, type \in 1..4 :
          craftingCount[f].count <= 2 =>
              LET req == handleCraftModule(type, craftingCount[f].count)
              IN  CraftOutcome(TRUE, f, planetOwner(f), type, req.materials, req.amounts)
                      \notin AmountErrors

\* a module crafted at the third price with exactly the request of the pane
C36_Witness ==
    /\ last.op = "craftModule" /\ last.result = "ok"
    /\ craftingCount[last.planet].count = 3
    /\ last.materials = handleCraftModule(last.type, 2).materials
    /\ last.amounts = handleCraftModule(last.type, 2).amounts

\* ------------------------------------------------------- reference claims
ReferenceErrors == {"ArtifactNotOnPlanet1", "ArtifactNotOnPlanet2", "ArtifactNotOnPlanet3",
                    "InvalidSpaceshipArtifact", "InvalidModuleArtifact"}
InstallReferencesHold(planet, c, m) ==
    /\ c \in artifactStorage[planet] /\ m \in artifactStorage[planet]
    /\ c \in Carriers /\ m \in Modules

C37_SuccessNeedsReferences ==
    \A executor \in Users, c \in ArtifactIds, m \in ArtifactIds :
        /\ InstallOutcome(Ship, 1, executor, c, m) = "ok" => InstallReferencesHold(1, c, m)
        /\ UninstallOutcome(Ship, 1, executor, c, m) = "ok" => c \in artifactStorage[1]

C37_BadReferenceOutcome ==
    \A c \in ArtifactIds, m \in ArtifactIds :
        /\ ~InstallReferencesHold(1, c, m)
              => InstallOutcome(Ship, 1, planetOwner(1), c, m) \in ReferenceErrors
        /\ c \notin artifactStorage[1]
              => /\ InstallOutcome(Ship, 1, planetOwner(1), c, m) = "ArtifactNotOnPlanet1"
                 /\ UninstallOutcome(Ship, 1, planetOwner(1), c, m) = "ArtifactNotOnPlanet3"

C37_ReferenceRejectionChangesNothing ==
    [][last'.result \in ReferenceErrors
          => last'.op \in {"installModule", "uninstallModule"} /\ UNCHANGED world]_vars

HighRarities == {EPIC, LEGENDARY, MYTHIC}
\* highest planet level tried in the rarity check
MaxPlanetLevel == 9
EligibleLevels == MIN_FOUNDRY_LEVEL..MaxPlanetLevel
BoostSeeds == {SeedBoost2, SeedBoost1, SeedNoBoost}

C38_CraftedAreHigh ==
    \A a \in Crafted :
        /\ artifactTable[a].rarity \in HighRarities
        /\ CraftedRecord(a).rarity \in HighRarities

C38_EligibleLevelsGiveHigh ==
    \A p \in Planets, r \in Roles, seed \in BoostSeeds :
        LET ks == KindsOf(Recipe(r[1], r[2]))
            am == PricedFor(r, craftingCount[p].count)
        IN  CraftOutcome(r[1], p, planetOwner(p), r[2], ks, am) = "ok"
              => /\ planetLevel(p) \in EligibleLevels
                 /\ \A l \in EligibleLevels :
                       /\ calculateModuleRarity(l, seed) \in HighRarities
                       /\ calculateSpaceshipRarity(l, seed) \in HighRarities

\* C38: every item a craft created has rarity Epic, Legendary or Mythic: a craft is
\* accepted only on a planet of level 4 or more, and from level 4 on the rarity is at
\* least Epic whatever the seed, so no crafted carrier or module is Common or Rare.
C38_CraftedNeverBelowEpic ==
    C38_CraftedAreHigh /\ C38_EligibleLevelsGiveHigh

\* a carrier and a module were crafted, and a craft on the level-3 foundry was refused
C38_Witness ==
    /\ Carriers # {} /\ Modules # {}
    /\ \A a \in Crafted : artifactTable[a].rarity = EPIC
    /\ planetLevel(4) < MIN_FOUNDRY_LEVEL
    /\ CraftOutcome(TRUE, 4, planetOwner(4), 1, <<"WINDSTEEL", "AURORIUM">>, <<80, 40>>)
          = "PlanetLevelTooLow"
    /\ calculateModuleRarity(planetLevel(4), SeedNoBoost) = RARE

\* ------------------------------------------------- upgrade fee in the panes
\* the rarities of the artifacts the client lists as held by the planet
HeldRarities(foundry) == {artifactTable[a].rarity : a \in artifactStorage[foundry]}

RECURSIVE HighestOf(_, _)
HighestOf(rarities, highest) ==
    IF rarities = {} THEN highest
    ELSE LET r == CHOOSE x \in rarities : TRUE
         IN  HighestOf(rarities \ {r}, IF r > highest THEN r ELSE highest)

\* FoundryUpgradePane.tsx
FoundryUpgradePane_getBiomeMultiplier(biome) ==
    IF biome >= 1 /\ biome <= 3 THEN 100
    ELSE IF biome >= 4 /\ biome <= 6 THEN 150
    ELSE IF biome >= 7 /\ biome <= 9 THEN 200
    ELSE IF biome = 10 THEN 250
    ELSE 100

FoundryUpgradePane_getRarityMultiplier(rarity) ==
    IF rarity = 1 THEN 100
    ELSE IF rarity = 2 THEN 120
    ELSE IF rarity = 3 THEN 150
    ELSE IF rarity = 4 THEN 200
    ELSE IF rarity = 5 THEN 300
    ELSE 100

FoundryUpgradePane_getHighestArtifactRarity(rarities) == HighestOf(rarities, 1)

\* upgradeCost of the pane, in units of 10^10 wei: 50_000_000_000_000 at level 0 and
\* 10_000_000_000_000 otherwise
FoundryUpgradePane_upgradeCost(level, biome, rarities) ==
    ((IF level = 0 THEN 5000 ELSE 1000)
        * FoundryUpgradePane_getBiomeMultiplier(biome)
        * FoundryUpgradePane_getRarityMultiplier(
              FoundryUpgradePane_getHighestArtifactRarity(rarities))) \div 10000

\* ModuleCraftingPane.tsx
getBiomeMultiplierForUpgrade(biome) ==
    IF biome >= 1 /\ biome <= 3 THEN 100
    ELSE IF biome >= 4 /\ biome <= 6 THEN 150
    ELSE IF biome >= 7 /\ biome <= 9 THEN 200
    ELSE IF biome = 10 THEN 250
    ELSE 100

getRarityMultiplierForUpgrade(rarity) ==
    IF rarity = 1 THEN 100
    ELSE IF rarity = 2 THEN 120
    ELSE IF rarity = 3 THEN 150
    ELSE IF rarity = 4 THEN 200
    ELSE IF rarity = 5 THEN 300
    ELSE 100

getHighestArtifactRarityForUpgrade(rarities) == HighestOf(rarities, 1)

\* upgradeCost of the pane, in units of 10^10 wei: 50_000_000_000_000 at level 0 and
\* 100_000_000_000_000 otherwise
ModuleCraftingPane_upgradeCost(level, biome, rarities) ==
    ((IF level = 0 THEN 5000 ELSE 10000)
        * getBiomeMultiplierForUpgrade(biome)
        * getRarityMultiplierForUpgrade(getHighestArtifactRarityForUpgrade(rarities))) \div 10000

UpgradableTiers == 0..(MAX_UPGRADE_LEVEL - 1)

\* C39: for the present upgrade level (0 or 1) of every planet, its biome and the highest
\* rarity among the artifacts it holds, the fee each pane computes equals the fee the
\* contract requires on top of the entry fee.
C39_PaneFeesEqualContractFee ==
    \A foundry \in Planets :
        branchLevel[foundry] \in UpgradableTiers =>
            /\ FoundryUpgradePane_upgradeCost(branchLevel[foundry], planetBiome(foundry),
                                              HeldRarities(foundry))
                  = upgradeTotalFee(foundry, branchLevel[foundry])
            /\ ModuleCraftingPane_upgradeCost(branchLevel[foundry], planetBiome(foundry),
                                              HeldRarities(foundry))
                  = upgradeTotalFee(foundry, branchLevel[foundry])

\* the part that holds: the crafting pane at both levels, the upgrade pane at level 0
C39_PaneFeesExceptUpgradePaneAtLevelOne ==
    \A foundry \in Planets, tier \in UpgradableTiers :
        /\ ModuleCraftingPane_upgradeCost(tier, planetBiome(foundry), HeldRarities(foundry))
              = upgradeTotalFee(foundry, tier)
        /\ tier = 0 =>
              FoundryUpgradePane_upgradeCost(tier, planetBiome(foundry), HeldRarities(foundry))
                  = upgradeTotalFee(foundry, tier)
        /\ tier = 1 =>
              10 * FoundryUpgradePane_upgradeCost(tier, planetBiome(foundry),
                                                  HeldRarities(foundry))
                  = upgradeTotalFee(foundry, tier)

====
